---------------------------- MODULE Spec2Model ----------------------------
(***************************************************************************)
(* The valuation request handler (backend/routers/valuation.py) and the    *)
(* valuation engine (backend/services/valuation_engine.py).                *)
(*                                                                         *)
(* Python floats are modelled as exact rationals [t, n, d]; None and a     *)
(* missing dictionary key are values of their own, so that dict.get with   *)
(* a default, truthiness tests and the TypeError of arithmetic or          *)
(* comparison on None are modelled as the interpreter performs them.       *)
(***************************************************************************)
EXTENDS Integers, Sequences, FiniteSets, TLC

VARIABLES
    request,            \* ValuationRequest: valuation_methods, assumptions
    stock_data,         \* what data_retriever.get_stock_data returned
    market_context,     \* what data_retriever.get_market_context returned
    pc,                 \* position of perform_valuation
    idx,                \* position of the for loop in valuation_methods
    financial_metrics,  \* extract_financial_metrics(stock_data)
    valuations,         \* the list the loop appends to
    calls,              \* methods perform_single_valuation was called with
    seen,               \* the arguments each of those calls was handed
    warnings,           \* logger.warning records of the loop's except branch
    recommendation,     \* generate_recommendation's result
    risk_factors,       \* identify_risk_factors' result
    response,           \* what the caller receives
    other,              \* the frame of the request coroutine that is suspended
    current,            \* which request's coroutine the event loop is running
    call,               \* a helper applied on its own: arguments and result
    now                 \* the clock, as datetime.now reads it

vars == <<request, stock_data, market_context, pc, idx, financial_metrics,
          valuations, calls, seen, warnings, recommendation, risk_factors,
          response, other, current, call, now>>

(***************************************************************************)
(* Bounds of the model.                                                    *)
(***************************************************************************)
MaxMethods == 3
MaxOutcomes == 2
MaxFlows == 3
MaxYears == 3
MaxRows == 2

(***************************************************************************)
(* Numbers.  A Python number is [t |-> "num", n, d] with d > 0 and n/d in  *)
(* lowest terms; None is PyNone; a key that the dictionary does not hold   *)
(* is Missing.                                                             *)
(***************************************************************************)
Abs(a) == IF a < 0 THEN -a ELSE a

RECURSIVE Gcd(_, _)
Gcd(a, b) == IF b = 0 THEN a ELSE Gcd(b, a % b)

R(n, d) ==
    LET g == Gcd(Abs(n), Abs(d))
        s == IF d < 0 THEN -1 ELSE 1
    IN  [t |-> "num", n |-> s * (n \div g), d |-> s * (d \div g)]

Num(n) == [t |-> "num", n |-> n, d |-> 1]
PyNone == [t |-> "none", n |-> 0, d |-> 1]
Missing == [t |-> "missing", n |-> 0, d |-> 1]

IsNum(x) == x.t = "num"
IsZero(x) == x.n = 0
Sign(x) == IF x.n > 0 THEN 1 ELSE IF x.n < 0 THEN -1 ELSE 0

\* a + b, through the least common denominator
RAdd(a, b) ==
    LET g == Gcd(a.d, b.d)
    IN  R(a.n * (b.d \div g) + b.n * (a.d \div g), (a.d \div g) * b.d)
RNeg(a) == [t |-> "num", n |-> -a.n, d |-> a.d]
RSub(a, b) == RAdd(a, RNeg(b))
\* a * b, cancelling across before multiplying
RMul(a, b) ==
    LET g1 == Gcd(Abs(a.n), b.d)
        g2 == Gcd(Abs(b.n), a.d)
    IN  IF a.n = 0 \/ b.n = 0 THEN Num(0)
        ELSE [t |-> "num", n |-> (a.n \div g1) * (b.n \div g2),
                           d |-> (a.d \div g2) * (b.d \div g1)]
\* 1 / a, for a # 0
RInv(a) == IF a.n > 0 THEN [t |-> "num", n |-> a.d, d |-> a.n]
           ELSE [t |-> "num", n |-> -a.d, d |-> -a.n]
RDiv(a, b) == RMul(a, RInv(b))
RECURSIVE RPow(_, _)
RPow(a, k) == IF k = 0 THEN Num(1) ELSE RMul(a, RPow(a, k - 1))
RAbs(a) == [t |-> "num", n |-> Abs(a.n), d |-> a.d]
RLt(a, b) == Sign(RSub(a, b)) < 0
RGt(a, b) == Sign(RSub(a, b)) > 0
RLe(a, b) == Sign(RSub(a, b)) <= 0
RECURSIVE RSum(_)
RSum(s) == IF s = <<>> THEN Num(0) ELSE RAdd(Head(s), RSum(Tail(s)))

\* d.get(key, default) and d.get(key)
Get(d, key, default) == IF d[key].t = "missing" THEN default ELSE d[key]
Get1(d, key) == Get(d, key, PyNone)
\* bool(x) of a number or None
Truthy(x) == IsNum(x) /\ ~IsZero(x)

(***************************************************************************)
(* models/schemas.py                                                       *)
(***************************************************************************)
DCF == "dcf"
PEG == "peg"
PE == "pe"
COMPARATIVE == "comparative"
ValuationMethod == {DCF, PEG, PE, COMPARATIVE}

\* What a call returns: a value, or the exception it raised.
Ok(v) == [ok |-> TRUE, error |-> "", value |-> v]
Raise(e) == [ok |-> FALSE, error |-> e, value |-> <<>>]

ValuationResult(method, estimated_value, confidence_interval, assumptions, calculation_details) ==
    [method |-> method, estimated_value |-> estimated_value,
     confidence_interval |-> confidence_interval, assumptions |-> assumptions,
     calculation_details |-> calculation_details]

(***************************************************************************)
(* services/valuation_engine.py: the numeric primitives                    *)
(***************************************************************************)
\* range(1, years + 1) needs an integer; None or a float raises TypeError.
IsPyInt(x) == IsNum(x) /\ x.d = 1

\* _project_cash_flows over range(years): the exponents start at 0
_project_cash_flows_fromzero(initial_fcf, growth_rate, years) ==
    IF ~IsPyInt(years) THEN Raise("TypeError")
    ELSE IF years.n < 1 THEN Ok(<<>>)
    ELSE IF ~IsNum(growth_rate) \/ ~IsNum(initial_fcf) THEN Raise("TypeError")
    ELSE Ok([year \in 1..years.n |->
                RMul(initial_fcf, RPow(RAdd(Num(1), growth_rate), year - 1))])

_project_cash_flows(initial_fcf, growth_rate, years) ==
    IF ~IsPyInt(years) THEN Raise("TypeError")
    ELSE IF years.n < 1 THEN Ok(<<>>)
    ELSE IF ~IsNum(growth_rate) \/ ~IsNum(initial_fcf) THEN Raise("TypeError")
    ELSE Ok([year \in 1..years.n |->
                RMul(initial_fcf, RPow(RAdd(Num(1), growth_rate), year))])

_calculate_terminal_value(final_fcf, terminal_growth, discount_rate) ==
    IF ~IsNum(final_fcf) \/ ~IsNum(terminal_growth) \/ ~IsNum(discount_rate)
    THEN Raise("TypeError")
    ELSE IF IsZero(RSub(discount_rate, terminal_growth))
    THEN Raise("ZeroDivisionError")
    ELSE Ok(RDiv(RMul(final_fcf, RAdd(Num(1), terminal_growth)),
                 RSub(discount_rate, terminal_growth)))

\* _discount_cash_flows compounding the flows instead of discounting them
_discount_cash_flows_compounding(cash_flows, discount_rate) ==
    IF cash_flows = <<>> THEN Ok(<<>>)
    ELSE IF ~IsNum(discount_rate) THEN Raise("TypeError")
    ELSE Ok([i \in 1..Len(cash_flows) |->
                RMul(cash_flows[i], RPow(RAdd(Num(1), discount_rate), i))])

\* _discount_cash_flows with the exponent i in place of i + 1 (0-indexed i)
_discount_cash_flows_offbyone(cash_flows, discount_rate) ==
    IF cash_flows = <<>> THEN Ok(<<>>)
    ELSE IF ~IsNum(discount_rate) THEN Raise("TypeError")
    ELSE IF IsZero(RAdd(Num(1), discount_rate)) THEN Raise("ZeroDivisionError")
    ELSE Ok([i \in 1..Len(cash_flows) |->
                RDiv(cash_flows[i], RPow(RAdd(Num(1), discount_rate), i - 1))])

_discount_cash_flows(cash_flows, discount_rate) ==
    IF cash_flows = <<>> THEN Ok(<<>>)
    ELSE IF ~IsNum(discount_rate) THEN Raise("TypeError")
    ELSE IF IsZero(RAdd(Num(1), discount_rate)) THEN Raise("ZeroDivisionError")
    ELSE Ok([i \in 1..Len(cash_flows) |->
                RDiv(cash_flows[i], RPow(RAdd(Num(1), discount_rate), i))])

_calculate_dcf_confidence_interval(estimated_value, growth_rate, discount_rate) ==
    LET lower_bound == RMul(estimated_value, R(4, 5))
        upper_bound == RMul(estimated_value, R(6, 5))
    IN  <<lower_bound, upper_bound>>

\* _calculate_peg_confidence_interval with <= in place of < at both tiers
_calculate_peg_confidence_interval_inclusive(estimated_value, peg_ratio) ==
    LET peg_deviation == RAbs(RSub(peg_ratio, Num(1)))
        confidence_range ==
            IF RLe(peg_deviation, R(1, 5)) THEN R(1, 10)
            ELSE IF RLe(peg_deviation, R(1, 2)) THEN R(1, 5)
            ELSE R(3, 10)
    IN  <<RMul(estimated_value, RSub(Num(1), confidence_range)),
          RMul(estimated_value, RAdd(Num(1), confidence_range))>>

_calculate_peg_confidence_interval(estimated_value, peg_ratio) ==
    LET peg_deviation == RAbs(RSub(peg_ratio, Num(1)))
        confidence_range ==
            IF RLt(peg_deviation, R(1, 5)) THEN R(1, 10)
            ELSE IF RLt(peg_deviation, R(1, 2)) THEN R(1, 5)
            ELSE R(3, 10)
    IN  <<RMul(estimated_value, RSub(Num(1), confidence_range)),
          RMul(estimated_value, RAdd(Num(1), confidence_range))>>

\* _calculate_pe_confidence_interval with <= in place of < at both tiers
_calculate_pe_confidence_interval_inclusive(estimated_value, current_pe, industry_pe) ==
    LET pe_deviation == RDiv(RAbs(RSub(current_pe, industry_pe)), industry_pe)
        confidence_range ==
            IF RLe(pe_deviation, R(1, 10)) THEN R(1, 10)
            ELSE IF RLe(pe_deviation, R(3, 10)) THEN R(1, 5)
            ELSE R(3, 10)
    IN  <<RMul(estimated_value, RSub(Num(1), confidence_range)),
          RMul(estimated_value, RAdd(Num(1), confidence_range))>>

_calculate_pe_confidence_interval(estimated_value, current_pe, industry_pe) ==
    LET pe_deviation == RDiv(RAbs(RSub(current_pe, industry_pe)), industry_pe)
        confidence_range ==
            IF RLt(pe_deviation, R(1, 10)) THEN R(1, 10)
            ELSE IF RLt(pe_deviation, R(3, 10)) THEN R(1, 5)
            ELSE R(3, 10)
    IN  <<RMul(estimated_value, RSub(Num(1), confidence_range)),
          RMul(estimated_value, RAdd(Num(1), confidence_range))>>

\* _get_industry_pe_ratio with 15.0 as the default of the lookup
_get_industry_pe_ratio_default15(sector) ==
    CASE sector = "Technology" -> Num(25)
      [] sector = "Healthcare" -> Num(20)
      [] sector = "Finance" -> Num(15)
      [] sector = "Energy" -> Num(12)
      [] sector = "Consumer Cyclical" -> Num(18)
      [] sector = "Consumer Defensive" -> Num(16)
      [] sector = "Industrials" -> Num(17)
      [] sector = "Basic Materials" -> Num(14)
      [] sector = "Real Estate" -> Num(22)
      [] sector = "Communication Services" -> Num(23)
      [] sector = "Utilities" -> Num(19)
      [] OTHER -> Num(15)

_get_industry_pe_ratio(sector) ==
    CASE sector = "Technology" -> Num(25)
      [] sector = "Healthcare" -> Num(20)
      [] sector = "Finance" -> Num(15)
      [] sector = "Energy" -> Num(12)
      [] sector = "Consumer Cyclical" -> Num(18)
      [] sector = "Consumer Defensive" -> Num(16)
      [] sector = "Industrials" -> Num(17)
      [] sector = "Basic Materials" -> Num(14)
      [] sector = "Real Estate" -> Num(22)
      [] sector = "Communication Services" -> Num(23)
      [] sector = "Utilities" -> Num(19)
      [] OTHER -> Num(18)

(***************************************************************************)
(* services/valuation_engine.py: the four valuators.  Each returns         *)
(* Ok(ValuationResult) or the exception that leaves its try block (the     *)
(* except branch logs and re-raises).                                      *)
(***************************************************************************)
\* The request's assumptions: None, or a dict that holds a key unless its
\* value here is Missing.  bool(dict) is false for the empty dict.
AssumptionKeys ==
    {"growth_rate", "discount_rate", "terminal_growth", "projection_years",
     "unrecognized"}
AssumptionsTruthy(assumptions) ==
    assumptions.dict /\ \E k \in AssumptionKeys : assumptions[k].t # "missing"
\* Assumption with the test inverted: the override is read only from a
\* falsy mapping, so a caller's override is never applied
Assumption_inverted(assumptions, key, default) ==
    IF ~AssumptionsTruthy(assumptions) /\ assumptions.dict
    THEN Get(assumptions, key, default)
    ELSE default

Assumption(assumptions, key, default) ==
    IF AssumptionsTruthy(assumptions) THEN Get(assumptions, key, default)
    ELSE default

\* dcf_valuation dividing by shares_outstanding without the > 0 test
dcf_valuation_unguarded(sd, mc, assumptions) ==
    LET free_cash_flow == Get(sd, "free_cash_flow", Num(0))
        growth_rate == Assumption(assumptions, "growth_rate", R(1, 20))
        discount_rate == Assumption(assumptions, "discount_rate", R(1, 10))
        terminal_growth == Assumption(assumptions, "terminal_growth", R(1, 50))
        projection_years == Assumption(assumptions, "projection_years", Num(5))
        projected == _project_cash_flows(free_cash_flow, growth_rate,
                                         projection_years)
    IN
    IF ~projected.ok THEN projected
    ELSE IF projected.value = <<>> THEN Raise("IndexError")
    ELSE
    LET projected_cash_flows == projected.value
        terminal == _calculate_terminal_value(
                        projected_cash_flows[Len(projected_cash_flows)],
                        terminal_growth, discount_rate)
        discounted == _discount_cash_flows(projected_cash_flows, discount_rate)
    IN
    IF ~terminal.ok THEN terminal
    ELSE IF ~discounted.ok THEN discounted
    ELSE
    LET terminal_value == terminal.value
        present_value_cash_flows == discounted.value
        present_value_terminal ==
            RDiv(terminal_value,
                 RPow(RAdd(Num(1), discount_rate), projection_years.n))
        enterprise_value ==
            RAdd(RSum(present_value_cash_flows), present_value_terminal)
        debt == Get(sd, "total_debt", Num(0))
        cash == Get(sd, "total_cash", Num(0))
        shares_outstanding == Get(sd, "shares_outstanding", Num(1))
    IN
    IF ~IsNum(debt) \/ ~IsNum(cash) \/ ~IsNum(shares_outstanding)
    THEN Raise("TypeError")
    ELSE IF IsZero(shares_outstanding) THEN Raise("ZeroDivisionError")
    ELSE
    LET equity_value == RAdd(RSub(enterprise_value, debt), cash)
        estimated_value ==
            RDiv(equity_value, shares_outstanding)
        confidence_interval ==
            _calculate_dcf_confidence_interval(estimated_value, growth_rate,
                                               discount_rate)
    IN  Ok(ValuationResult(DCF, estimated_value, confidence_interval,
              [growth_rate |-> growth_rate,
               discount_rate |-> discount_rate,
               terminal_growth |-> terminal_growth,
               projection_years |-> projection_years],
              [free_cash_flow |-> free_cash_flow,
               enterprise_value |-> enterprise_value,
               equity_value |-> equity_value,
               projected_cash_flows |-> projected_cash_flows,
               terminal_value |-> terminal_value]))

dcf_valuation(sd, mc, assumptions) ==
    LET free_cash_flow == Get(sd, "free_cash_flow", Num(0))
        growth_rate == Assumption(assumptions, "growth_rate", R(1, 20))
        discount_rate == Assumption(assumptions, "discount_rate", R(1, 10))
        terminal_growth == Assumption(assumptions, "terminal_growth", R(1, 50))
        projection_years == Assumption(assumptions, "projection_years", Num(5))
        projected == _project_cash_flows(free_cash_flow, growth_rate,
                                         projection_years)
    IN
    IF ~projected.ok THEN projected
    ELSE IF projected.value = <<>> THEN Raise("IndexError")
    ELSE
    LET projected_cash_flows == projected.value
        terminal == _calculate_terminal_value(
                        projected_cash_flows[Len(projected_cash_flows)],
                        terminal_growth, discount_rate)
        discounted == _discount_cash_flows(projected_cash_flows, discount_rate)
    IN
    IF ~terminal.ok THEN terminal
    ELSE IF ~discounted.ok THEN discounted
    ELSE
    LET terminal_value == terminal.value
        present_value_cash_flows == discounted.value
        present_value_terminal ==
            RDiv(terminal_value,
                 RPow(RAdd(Num(1), discount_rate), projection_years.n))
        enterprise_value ==
            RAdd(RSum(present_value_cash_flows), present_value_terminal)
        debt == Get(sd, "total_debt", Num(0))
        cash == Get(sd, "total_cash", Num(0))
        shares_outstanding == Get(sd, "shares_outstanding", Num(1))
    IN
    IF ~IsNum(debt) \/ ~IsNum(cash) \/ ~IsNum(shares_outstanding)
    THEN Raise("TypeError")
    ELSE
    LET equity_value == RAdd(RSub(enterprise_value, debt), cash)
        estimated_value ==
            IF Sign(shares_outstanding) > 0
            THEN RDiv(equity_value, shares_outstanding)
            ELSE equity_value
        confidence_interval ==
            _calculate_dcf_confidence_interval(estimated_value, growth_rate,
                                               discount_rate)
    IN  Ok(ValuationResult(DCF, estimated_value, confidence_interval,
              [growth_rate |-> growth_rate,
               discount_rate |-> discount_rate,
               terminal_growth |-> terminal_growth,
               projection_years |-> projection_years],
              [free_cash_flow |-> free_cash_flow,
               enterprise_value |-> enterprise_value,
               equity_value |-> equity_value,
               projected_cash_flows |-> projected_cash_flows,
               terminal_value |-> terminal_value]))

\* peg_valuation taking the price itself, not price / P/E, for a missing eps
peg_valuation_priceeps(sd, mc, assumptions) ==
    LET pe_ratio == Get1(sd, "pe_ratio")
        earnings_growth == Get1(sd, "earnings_growth")
        current_price == Get(sd, "current_price", Num(0))
    IN
    IF ~Truthy(pe_ratio) \/ ~Truthy(earnings_growth) THEN Raise("ValueError")
    \* the default of .get('eps', current_price / pe_ratio) is evaluated first
    ELSE IF ~IsNum(current_price) THEN Raise("TypeError")
    ELSE
    LET peg_ratio == RDiv(pe_ratio, RMul(earnings_growth, Num(100)))
        fair_pe_ratio == RMul(earnings_growth, Num(100))
        eps == Get(sd, "eps", current_price)
    IN
    IF ~IsNum(eps) THEN Raise("TypeError")
    ELSE
    LET estimated_value == RMul(fair_pe_ratio, eps)
        confidence_interval ==
            _calculate_peg_confidence_interval(estimated_value, peg_ratio)
    IN  Ok(ValuationResult(PEG, estimated_value, confidence_interval,
              [fair_peg_ratio |-> Num(1), growth_rate |-> earnings_growth],
              [peg_ratio |-> peg_ratio, pe_ratio |-> pe_ratio,
               earnings_growth |-> earnings_growth,
               fair_pe_ratio |-> fair_pe_ratio]))

peg_valuation(sd, mc, assumptions) ==
    LET pe_ratio == Get1(sd, "pe_ratio")
        earnings_growth == Get1(sd, "earnings_growth")
        current_price == Get(sd, "current_price", Num(0))
    IN
    IF ~Truthy(pe_ratio) \/ ~Truthy(earnings_growth) THEN Raise("ValueError")
    \* the default of .get('eps', current_price / pe_ratio) is evaluated first
    ELSE IF ~IsNum(current_price) THEN Raise("TypeError")
    ELSE
    LET peg_ratio == RDiv(pe_ratio, RMul(earnings_growth, Num(100)))
        fair_pe_ratio == RMul(earnings_growth, Num(100))
        eps == Get(sd, "eps", RDiv(current_price, pe_ratio))
    IN
    IF ~IsNum(eps) THEN Raise("TypeError")
    ELSE
    LET estimated_value == RMul(fair_pe_ratio, eps)
        confidence_interval ==
            _calculate_peg_confidence_interval(estimated_value, peg_ratio)
    IN  Ok(ValuationResult(PEG, estimated_value, confidence_interval,
              [fair_peg_ratio |-> Num(1), growth_rate |-> earnings_growth],
              [peg_ratio |-> peg_ratio, pe_ratio |-> pe_ratio,
               earnings_growth |-> earnings_growth,
               fair_pe_ratio |-> fair_pe_ratio]))

pe_valuation(sd, mc, assumptions) ==
    LET current_pe == Get1(sd, "pe_ratio")
        current_price == Get(sd, "current_price", Num(0))
    IN
    \* the default of .get('eps', current_price / current_pe if current_pe else 0)
    IF Truthy(current_pe) /\ ~IsNum(current_price) THEN Raise("TypeError")
    ELSE
    LET eps == Get(sd, "eps", IF Truthy(current_pe)
                              THEN RDiv(current_price, current_pe)
                              ELSE Num(0))
    IN
    IF ~Truthy(current_pe) \/ ~Truthy(eps) THEN Raise("ValueError")
    ELSE
    LET industry_pe == _get_industry_pe_ratio(sd.sector)
        estimated_value == RMul(industry_pe, eps)
        confidence_interval ==
            _calculate_pe_confidence_interval(estimated_value, current_pe,
                                              industry_pe)
    IN  Ok(ValuationResult(PE, estimated_value, confidence_interval,
              [industry_pe_ratio |-> industry_pe,
               valuation_method |-> "industry_comparison"],
              [current_pe |-> current_pe, industry_pe |-> industry_pe,
               eps |-> eps, pe_difference |-> RSub(current_pe, industry_pe)]))

\* comparative_valuation granting its premium only in a calm market
comparative_valuation_calmonly(sd, mc, assumptions) ==
    LET current_price == Get(sd, "current_price", Num(0))
        market_volatility == Get(mc, "market_volatility", Num(0))
    IN
    IF ~IsNum(current_price) \/ ~IsNum(market_volatility)
    THEN Raise("TypeError")
    ELSE
    LET estimated_value ==
            IF RLt(R(3, 10), market_volatility) THEN current_price
            ELSE RMul(current_price, R(11, 10))
    IN  Ok(ValuationResult(COMPARATIVE, estimated_value,
              <<RMul(estimated_value, R(4, 5)), RMul(estimated_value, R(6, 5))>>,
              [peer_comparison |-> TRUE, sector_average |-> TRUE],
              [method |-> "placeholder",
               note |-> "Comparative valuation not yet implemented"]))

\* comparative_valuation with a premium of 20% in place of 10%
comparative_valuation_premium20(sd, mc, assumptions) ==
    LET current_price == Get(sd, "current_price", Num(0))
    IN
    IF ~IsNum(current_price) THEN Raise("TypeError")
    ELSE
    LET estimated_value == RMul(current_price, R(6, 5))
    IN  Ok(ValuationResult(COMPARATIVE, estimated_value,
              <<RMul(estimated_value, R(4, 5)), RMul(estimated_value, R(6, 5))>>,
              [peer_comparison |-> TRUE, sector_average |-> TRUE],
              [method |-> "placeholder",
               note |-> "Comparative valuation not yet implemented"]))

comparative_valuation(sd, mc, assumptions) ==
    LET current_price == Get(sd, "current_price", Num(0))
    IN
    IF ~IsNum(current_price) THEN Raise("TypeError")
    ELSE
    LET estimated_value == RMul(current_price, R(11, 10))
    IN  Ok(ValuationResult(COMPARATIVE, estimated_value,
              <<RMul(estimated_value, R(4, 5)), RMul(estimated_value, R(6, 5))>>,
              [peer_comparison |-> TRUE, sector_average |-> TRUE],
              [method |-> "placeholder",
               note |-> "Comparative valuation not yet implemented"]))

(***************************************************************************)
(* routers/valuation.py: the helpers of perform_valuation                  *)
(***************************************************************************)
\* perform_single_valuation with the PEG and P/E branches exchanged
perform_single_valuation_swapped(method, sd, mc, assumptions) ==
    CASE method = DCF -> dcf_valuation(sd, mc, assumptions)
      [] method = PEG -> pe_valuation(sd, mc, assumptions)
      [] method = PE -> peg_valuation(sd, mc, assumptions)
      [] method = COMPARATIVE -> comparative_valuation(sd, mc, assumptions)
      [] OTHER -> Raise("ValueError")

perform_single_valuation(method, sd, mc, assumptions) ==
    CASE method = DCF -> dcf_valuation(sd, mc, assumptions)
      [] method = PEG -> peg_valuation(sd, mc, assumptions)
      [] method = PE -> pe_valuation(sd, mc, assumptions)
      [] method = COMPARATIVE -> comparative_valuation(sd, mc, assumptions)
      [] OTHER -> Raise("ValueError")

NoMetrics ==
    [current_price |-> Missing, market_cap |-> Missing, pe_ratio |-> Missing,
     peg_ratio |-> Missing, price_to_book |-> Missing,
     debt_to_equity |-> Missing, revenue_growth |-> Missing,
     earnings_growth |-> Missing, free_cash_flow |-> Missing]

\* FinancialMetrics(...): current_price and market_cap are float, not
\* Optional, so the model rejects None for them.
extract_financial_metrics(sd) ==
    LET current_price == Get(sd, "current_price", Num(0))
        market_cap == Get(sd, "market_cap", Num(0))
    IN  IF ~IsNum(current_price) \/ ~IsNum(market_cap)
        THEN Raise("ValidationError")
        ELSE Ok([current_price |-> current_price,
                 market_cap |-> market_cap,
                 pe_ratio |-> Get1(sd, "pe_ratio"),
                 peg_ratio |-> Get1(sd, "peg_ratio"),
                 price_to_book |-> Get1(sd, "price_to_book"),
                 debt_to_equity |-> Get1(sd, "debt_to_equity"),
                 revenue_growth |-> Get1(sd, "revenue_growth"),
                 earnings_growth |-> Get1(sd, "earnings_growth"),
                 free_cash_flow |-> Get1(sd, "free_cash_flow")])

InsufficientData == "Insufficient data for recommendation"
StrongBuy == "Strong Buy - Multiple valuation methods suggest significant upside"
Buy == "Buy - Valuation suggests moderate upside potential"
Sell == "Sell - Valuation suggests significant downside risk"
HoldDownside == "Hold - Valuation suggests slight downside risk"
HoldFair == "Hold - Valuation is approximately fair value"

EstimatedValues(vs) == [k \in 1..Len(vs) |-> vs[k].estimated_value]

\* a / b of two numbers
PyDiv(a, b) ==
    IF IsZero(b) THEN Raise("ZeroDivisionError") ELSE Ok(RDiv(a, b))

\* generate_recommendation with >= in place of > in its first comparison
generate_recommendation_nonstrict(vs, metrics) ==
    IF vs = <<>> THEN Ok(InsufficientData)
    ELSE
    LET avg == PyDiv(RSum(EstimatedValues(vs)), Num(Len(vs)))
    IN
    IF ~avg.ok THEN avg
    ELSE
    LET avg_value == avg.value
        current_price == metrics.current_price
    IN  Ok(IF ~RLt(avg_value, RMul(current_price, R(6, 5))) THEN StrongBuy
           ELSE IF RGt(avg_value, RMul(current_price, R(21, 20))) THEN Buy
           ELSE IF RLt(avg_value, RMul(current_price, R(4, 5))) THEN Sell
           ELSE IF RLt(avg_value, RMul(current_price, R(19, 20)))
                THEN HoldDownside
           ELSE HoldFair)

generate_recommendation(vs, metrics) ==
    IF vs = <<>> THEN Ok(InsufficientData)
    ELSE
    LET avg == PyDiv(RSum(EstimatedValues(vs)), Num(Len(vs)))
    IN
    IF ~avg.ok THEN avg
    ELSE
    LET avg_value == avg.value
        current_price == metrics.current_price
    IN  Ok(IF RGt(avg_value, RMul(current_price, R(6, 5))) THEN StrongBuy
           ELSE IF RGt(avg_value, RMul(current_price, R(21, 20))) THEN Buy
           ELSE IF RLt(avg_value, RMul(current_price, R(4, 5))) THEN Sell
           ELSE IF RLt(avg_value, RMul(current_price, R(19, 20)))
                THEN HoldDownside
           ELSE HoldFair)

HighDebt == "High debt-to-equity ratio"
HighPE == "High P/E ratio may indicate overvaluation"
HighVolatility == "High market volatility"
NoRisk == "No significant risk factors identified"

\* identify_risk_factors returning the list as it is, without the sentinel
identify_risk_factors_nosentinel(sd, mc) ==
    LET debt_to_equity == Get(sd, "debt_to_equity", Num(0))
        pe_ratio == Get(sd, "pe_ratio", Num(0))
        market_volatility == Get(mc, "market_volatility", Num(0))
    IN
    IF ~IsNum(debt_to_equity) \/ ~IsNum(pe_ratio) \/ ~IsNum(market_volatility)
    THEN Raise("TypeError")
    ELSE
    LET r1 == IF RGt(debt_to_equity, Num(1)) THEN <<HighDebt>> ELSE <<>>
        r2 == IF RGt(pe_ratio, Num(30)) THEN Append(r1, HighPE) ELSE r1
        r3 == IF RGt(market_volatility, R(3, 10))
              THEN Append(r2, HighVolatility) ELSE r2
    IN  Ok(r3)

\* identify_risk_factors with >= in place of > in the debt rule
identify_risk_factors_inclusive(sd, mc) ==
    LET debt_to_equity == Get(sd, "debt_to_equity", Num(0))
        pe_ratio == Get(sd, "pe_ratio", Num(0))
        market_volatility == Get(mc, "market_volatility", Num(0))
    IN
    IF ~IsNum(debt_to_equity) \/ ~IsNum(pe_ratio) \/ ~IsNum(market_volatility)
    THEN Raise("TypeError")
    ELSE
    LET r1 == IF ~RLt(debt_to_equity, Num(1)) THEN <<HighDebt>> ELSE <<>>
        r2 == IF RGt(pe_ratio, Num(30)) THEN Append(r1, HighPE) ELSE r1
        r3 == IF RGt(market_volatility, R(3, 10))
              THEN Append(r2, HighVolatility) ELSE r2
    IN  Ok(IF r3 # <<>> THEN r3 ELSE <<NoRisk>>)

\* x > limit for each rule; comparing None with a number raises TypeError.
identify_risk_factors(sd, mc) ==
    LET debt_to_equity == Get(sd, "debt_to_equity", Num(0))
        pe_ratio == Get(sd, "pe_ratio", Num(0))
        market_volatility == Get(mc, "market_volatility", Num(0))
    IN
    IF ~IsNum(debt_to_equity) \/ ~IsNum(pe_ratio) \/ ~IsNum(market_volatility)
    THEN Raise("TypeError")
    ELSE
    LET r1 == IF RGt(debt_to_equity, Num(1)) THEN <<HighDebt>> ELSE <<>>
        r2 == IF RGt(pe_ratio, Num(30)) THEN Append(r1, HighPE) ELSE r1
        r3 == IF RGt(market_volatility, R(3, 10))
              THEN Append(r2, HighVolatility) ELSE r2
    IN  Ok(IF r3 # <<>> THEN r3 ELSE <<NoRisk>>)

(***************************************************************************)
(* The inputs of a request: what the caller posts and what the data        *)
(* retriever returns for the symbol.                                       *)
(***************************************************************************)
SeqsUpTo(S, n) == UNION {[1..k -> S] : k \in 0..n}

\* get_stock_data returned None
NoData ==
    [exists |-> FALSE, current_price |-> Missing, market_cap |-> Missing,
     pe_ratio |-> Missing, peg_ratio |-> Missing, price_to_book |-> Missing,
     debt_to_equity |-> Missing, revenue_growth |-> Missing,
     earnings_growth |-> Missing, free_cash_flow |-> Missing, eps |-> Missing,
     sector |-> "<missing>", total_debt |-> Missing, total_cash |-> Missing,
     shares_outstanding |-> Missing]

\* The dict get_stock_data builds: the keys it sets are always present (None
\* when the source has no figure); eps, total_debt, total_cash and
\* shares_outstanding are keys it does not set.
BaseData ==
    [exists |-> TRUE, current_price |-> Num(20), market_cap |-> Num(1000),
     pe_ratio |-> Num(10), peg_ratio |-> PyNone, price_to_book |-> PyNone,
     debt_to_equity |-> R(1, 2), revenue_growth |-> PyNone,
     earnings_growth |-> R(1, 10), free_cash_flow |-> Num(1), eps |-> Missing,
     sector |-> "Technology", total_debt |-> Missing, total_cash |-> Missing,
     shares_outstanding |-> Missing]

\* get_market_context returns {} when retrieval fails
EmptyContext == [market_volatility |-> Missing]
Context(v) == [market_volatility |-> v]

\* request.assumptions
NoAssumptions ==
    [dict |-> FALSE, growth_rate |-> Missing, discount_rate |-> Missing,
     terminal_growth |-> Missing, projection_years |-> Missing,
     unrecognized |-> Missing]
EmptyAssumptions == [NoAssumptions EXCEPT !.dict = TRUE]
Assumptions(g, r, tg, y, u) ==
    [dict |-> TRUE, growth_rate |-> g, discount_rate |-> r,
     terminal_growth |-> tg, projection_years |-> y, unrecognized |-> u]
SmallAssumptions == Assumptions(Num(0), R(1, 2), Num(0), Num(2), Missing)

Request(methods, assumptions) ==
    [valuation_methods |-> methods, assumptions |-> assumptions]

NoResponse ==
    [status |-> "pending", detail |-> "", valuations |-> <<>>,
     recommendation |-> "", risk_factors |-> <<>>, timestamp |-> -1]

\* No second request is being handled; no helper is applied on its own.
NoFrame == [pc |-> "absent"]
NoCall == [fn |-> "none"]

\* The state when perform_valuation has awaited both retrievals.
Start(req, sd, mc) ==
    /\ request = req
    /\ stock_data = sd
    /\ market_context = mc
    /\ pc = "start"
    /\ idx = 0
    /\ financial_metrics = NoMetrics
    /\ valuations = <<>>
    /\ calls = <<>>
    /\ seen = <<>>
    /\ warnings = <<>>
    /\ recommendation = ""
    /\ risk_factors = <<>>
    /\ response = NoResponse
    /\ other = NoFrame
    /\ current = 1
    /\ call = NoCall
    /\ now = 0

\* Requests of every method list, over snapshots in which the figures the
\* retriever may lack are None
InitRequests ==
    \E methods \in SeqsUpTo(ValuationMethod, MaxMethods),
       assumptions \in {NoAssumptions, SmallAssumptions},
       cp \in {PyNone, Num(20)}, pe \in {PyNone, Num(10)},
       eg \in {PyNone, R(1, 10)}, fcf \in {PyNone, Num(1)},
       de \in {PyNone, R(1, 2)}, found \in BOOLEAN :
        Start(Request(methods, assumptions),
              IF found
              THEN [BaseData EXCEPT !.current_price = cp, !.pe_ratio = pe,
                                    !.earnings_growth = eg,
                                    !.free_cash_flow = fcf,
                                    !.debt_to_equity = de]
              ELSE NoData,
              Context(R(1, 20)))

\* DCF requests over the snapshot fields dcf_valuation reads
InitDcfData ==
    \E assumptions \in {NoAssumptions, EmptyAssumptions, SmallAssumptions},
       fcf \in {Missing, PyNone, Num(-1), Num(0), Num(1), Num(2)},
       debt \in {Missing, PyNone, Num(50)},
       cash \in {Missing, Num(3)},
       shares \in {Missing, PyNone, Num(-1), Num(0), Num(2)} :
        Start(Request(<<DCF>>, assumptions),
              [BaseData EXCEPT !.free_cash_flow = fcf, !.total_debt = debt,
                               !.total_cash = cash,
                               !.shares_outstanding = shares],
              Context(R(1, 20)))

\* DCF requests over the assumptions dcf_valuation reads
InitDcfAssumptions ==
    \E g \in {Missing, PyNone, Num(0), R(1, 2)},
       r \in {Missing, PyNone, Num(-1), Num(0), R(1, 2)},
       tg \in {Missing, Num(0), R(1, 2), Num(1)},
       y \in {Missing, PyNone, Num(-1), Num(0), Num(1), Num(2), R(3, 2)},
       u \in {Missing, Num(7)},
       fcf \in {Missing, PyNone, Num(2)} :
        Start(Request(<<DCF>>, Assumptions(g, r, tg, y, u)),
              [BaseData EXCEPT !.free_cash_flow = fcf],
              EmptyContext)

\* PEG, P/E and comparative requests over the fields those valuators read
InitRatioData ==
    \E m \in {PEG, PE, COMPARATIVE},
       pe \in {Missing, PyNone, Num(0), Num(10), Num(25)},
       eg \in {PyNone, R(-1, 10), R(1, 10), R(1, 8)},
       eps \in {Missing, PyNone, Num(2)},
       cp \in {Missing, PyNone, Num(20)},
       sector \in {"Technology", "Energy", "", "<None>"} :
        Start(Request(<<m>>, NoAssumptions),
              [BaseData EXCEPT !.pe_ratio = pe, !.earnings_growth = eg,
                               !.eps = eps, !.current_price = cp,
                               !.sector = sector],
              Context(R(1, 20)))

\* Requests over the fields identify_risk_factors reads
InitRiskData ==
    \E de \in {Missing, PyNone, R(1, 2), Num(1), Num(2)},
       pe \in {Missing, PyNone, Num(12), Num(30), Num(31)},
       mv \in {Missing, R(1, 20), R(3, 10), R(2, 5)} :
        Start(Request(<<COMPARATIVE>>, NoAssumptions),
              [BaseData EXCEPT !.debt_to_equity = de, !.pe_ratio = pe],
              Context(mv))

Init ==
    \/ InitRequests
    \/ InitDcfData
    \/ InitDcfAssumptions
    \/ InitRatioData
    \/ InitRiskData

(***************************************************************************)
(* routers/valuation.py: perform_valuation, one action per step            *)
(***************************************************************************)
Fail(status, detail) ==
    /\ response' = [NoResponse EXCEPT !.status = status, !.detail = detail]
    /\ pc' = "done"

\* if not stock_data: raise HTTPException(404); re-raised by except HTTPException
NotFound ==
    /\ pc = "start"
    /\ ~stock_data.exists
    /\ Fail("404", "Could not retrieve data for stock symbol")
    /\ UNCHANGED <<request, stock_data, market_context, idx, financial_metrics,
                   valuations, calls, seen, warnings, recommendation,
                   risk_factors>>
    /\ UNCHANGED <<other, current, call, now>>

\* ExtractMetrics reached without the `if not stock_data` check before it
ExtractMetrics_unchecked ==
    /\ pc = "start"
    /\ LET m == extract_financial_metrics(stock_data)
       IN  IF m.ok
           THEN /\ financial_metrics' = m.value
                /\ pc' = "loop"
                /\ idx' = 1
                /\ UNCHANGED response
           ELSE /\ Fail("500", m.error)
                /\ UNCHANGED <<financial_metrics, idx>>
    /\ UNCHANGED <<request, stock_data, market_context, valuations, calls,
                   seen, warnings, recommendation, risk_factors>>
    /\ UNCHANGED <<other, current, call, now>>

\* financial_metrics = extract_financial_metrics(stock_data); valuations = []
ExtractMetrics ==
    /\ pc = "start"
    /\ stock_data.exists
    /\ LET m == extract_financial_metrics(stock_data)
       IN  IF m.ok
           THEN /\ financial_metrics' = m.value
                /\ pc' = "loop"
                /\ idx' = 1
                /\ UNCHANGED response
           ELSE /\ Fail("500", m.error)
                /\ UNCHANGED <<financial_metrics, idx>>
    /\ UNCHANGED <<request, stock_data, market_context, valuations, calls,
                   seen, warnings, recommendation, risk_factors>>
    /\ UNCHANGED <<other, current, call, now>>

\* Valuate with a valuator that stores the growth_rate default in the
\* caller's mapping (assumptions.setdefault) as it resolves it
Valuate_setdefault ==
    /\ pc = "loop"
    /\ idx <= Len(request.valuation_methods)
    /\ LET method == request.valuation_methods[idx]
           r == perform_single_valuation(method, stock_data, market_context,
                                         request.assumptions)
       IN  /\ calls' = Append(calls, method)
           /\ seen' = Append(seen, [stock_data |-> stock_data,
                                    market_context |-> market_context,
                                    assumptions |-> request.assumptions])
           /\ IF r.ok
              THEN /\ valuations' = Append(valuations, r.value)
                   /\ UNCHANGED warnings
              ELSE /\ warnings' = Append(warnings,
                                     [method |-> method, error |-> r.error])
                   /\ UNCHANGED valuations
    /\ idx' = idx + 1
    /\ LET a == request.assumptions
       IN  request' =
               [request EXCEPT !.assumptions =
                   IF a.dict
                   THEN [a EXCEPT !.growth_rate = Get(a, "growth_rate", R(1, 20))]
                   ELSE a]
    /\ UNCHANGED <<stock_data, market_context, pc, financial_metrics,
                   recommendation, risk_factors, response>>
    /\ UNCHANGED <<other, current, call, now>>

\* Valuate with a valuator that branches on the clock: it raises once the
\* first response has been stamped
Valuate_timedependent ==
    /\ pc = "loop"
    /\ idx <= Len(request.valuation_methods)
    /\ LET method == request.valuation_methods[idx]
           r == perform_single_valuation(method, stock_data, market_context,
                                         request.assumptions)
       IN  /\ calls' = Append(calls, method)
           /\ seen' = Append(seen, [stock_data |-> stock_data,
                                    market_context |-> market_context,
                                    assumptions |-> request.assumptions])
           /\ IF r.ok /\ now = 0
              THEN /\ valuations' = Append(valuations, r.value)
                   /\ UNCHANGED warnings
              ELSE /\ warnings' = Append(warnings,
                                     [method |-> method, error |-> r.error])
                   /\ UNCHANGED valuations
    /\ idx' = idx + 1
    /\ UNCHANGED <<request, stock_data, market_context, pc, financial_metrics,
                   recommendation, risk_factors, response>>
    /\ UNCHANGED <<other, current, call, now>>

\* One iteration of: for method in request.valuation_methods
Valuate ==
    /\ pc = "loop"
    /\ idx <= Len(request.valuation_methods)
    /\ LET method == request.valuation_methods[idx]
           r == perform_single_valuation(method, stock_data, market_context,
                                         request.assumptions)
       IN  /\ calls' = Append(calls, method)
           /\ seen' = Append(seen, [stock_data |-> stock_data,
                                    market_context |-> market_context,
                                    assumptions |-> request.assumptions])
           /\ IF r.ok
              THEN /\ valuations' = Append(valuations, r.value)
                   /\ UNCHANGED warnings
              ELSE /\ warnings' = Append(warnings,
                                     [method |-> method, error |-> r.error])
                   /\ UNCHANGED valuations
    /\ idx' = idx + 1
    /\ UNCHANGED <<request, stock_data, market_context, pc, financial_metrics,
                   recommendation, risk_factors, response>>
    /\ UNCHANGED <<other, current, call, now>>

\* GenerateRecommendation leaving the loop as soon as one method has settled
GenerateRecommendation_early ==
    /\ pc = "loop"
    /\ idx > 1
    /\ LET r == generate_recommendation(valuations, financial_metrics)
       IN  IF r.ok
           THEN /\ recommendation' = r.value
                /\ pc' = "risk"
                /\ UNCHANGED response
           ELSE /\ Fail("500", r.error)
                /\ UNCHANGED recommendation
    /\ UNCHANGED <<request, stock_data, market_context, idx, financial_metrics,
                   valuations, calls, seen, warnings, risk_factors>>
    /\ UNCHANGED <<other, current, call, now>>

\* recommendation = generate_recommendation(valuations, financial_metrics)
GenerateRecommendation ==
    /\ pc = "loop"
    /\ idx > Len(request.valuation_methods)
    /\ LET r == generate_recommendation(valuations, financial_metrics)
       IN  IF r.ok
           THEN /\ recommendation' = r.value
                /\ pc' = "risk"
                /\ UNCHANGED response
           ELSE /\ Fail("500", r.error)
                /\ UNCHANGED recommendation
    /\ UNCHANGED <<request, stock_data, market_context, idx, financial_metrics,
                   valuations, calls, seen, warnings, risk_factors>>
    /\ UNCHANGED <<other, current, call, now>>

\* risk_factors = identify_risk_factors(stock_data, market_context)
IdentifyRiskFactors ==
    /\ pc = "risk"
    /\ LET r == identify_risk_factors(stock_data, market_context)
       IN  IF r.ok
           THEN /\ risk_factors' = r.value
                /\ pc' = "respond"
                /\ UNCHANGED response
           ELSE /\ Fail("500", r.error)
                /\ UNCHANGED risk_factors
    /\ UNCHANGED <<request, stock_data, market_context, idx, financial_metrics,
                   valuations, calls, seen, warnings, recommendation>>
    /\ UNCHANGED <<other, current, call, now>>

\* return ValuationResponse(...); its timestamp defaults to datetime.now()
Respond ==
    /\ pc = "respond"
    /\ response' = [status |-> "200", detail |-> "", valuations |-> valuations,
                    recommendation |-> recommendation,
                    risk_factors |-> risk_factors, timestamp |-> now]
    /\ now' = now + 1
    /\ pc' = "done"
    /\ UNCHANGED <<request, stock_data, market_context, idx, financial_metrics,
                   valuations, calls, seen, warnings, recommendation,
                   risk_factors>>
    /\ UNCHANGED <<other, current, call>>

Next ==
    \/ NotFound
    \/ ExtractMetrics
    \/ Valuate
    \/ GenerateRecommendation
    \/ IdentifyRiskFactors
    \/ Respond

Spec == Init /\ [][Next]_vars

(***************************************************************************)
(* generate_recommendation applied to any list of outcomes: the state      *)
(* after the loop, with the estimates and the current price drawn from     *)
(* bounded sets.                                                           *)
(***************************************************************************)
EstimateSet ==
    {Num(-5), Num(0), Num(16), Num(19), Num(21), Num(24), Num(70), Num(80),
     Num(90), Num(95), Num(102), Num(105), Num(110), Num(120), Num(125)}
PriceSet == {Num(0), Num(20), Num(100)}

OutcomeOf(e) ==
    ValuationResult(COMPARATIVE, e,
                    <<RMul(e, R(4, 5)), RMul(e, R(6, 5))>>,
                    [peer_comparison |-> TRUE, sector_average |-> TRUE],
                    [method |-> "placeholder",
                     note |-> "Comparative valuation not yet implemented"])

InitRecommendation ==
    \E es \in SeqsUpTo(EstimateSet, MaxOutcomes), p \in PriceSet :
        LET methods == [k \in 1..Len(es) |-> COMPARATIVE]
            sd == [BaseData EXCEPT !.current_price = p]
        IN  /\ request = Request(methods, NoAssumptions)
            /\ stock_data = sd
            /\ market_context = Context(R(1, 20))
            /\ pc = "loop"
            /\ idx = Len(es) + 1
            /\ financial_metrics = extract_financial_metrics(sd).value
            /\ valuations = [k \in 1..Len(es) |-> OutcomeOf(es[k])]
            /\ calls = methods
            /\ seen = [k \in 1..Len(es) |->
                           [stock_data |-> sd,
                            market_context |-> Context(R(1, 20)),
                            assumptions |-> NoAssumptions]]
            /\ warnings = <<>>
            /\ recommendation = ""
            /\ risk_factors = <<>>
            /\ response = NoResponse
            /\ other = NoFrame
            /\ current = 1
            /\ call = NoCall
            /\ now = 0

NextRecommendation ==
    \/ GenerateRecommendation
    \/ IdentifyRiskFactors
    \/ Respond

SpecRecommendation == InitRecommendation /\ [][NextRecommendation]_vars

(***************************************************************************)
(* A valuator of the engine applied to any snapshot: the state in which    *)
(* the loop is about to call it, with the snapshot, the market context and *)
(* the assumptions drawn from bounded sets.                                *)
(***************************************************************************)
Sectors ==
    {"Technology", "Healthcare", "Finance", "Energy", "Consumer Cyclical",
     "Consumer Defensive", "Industrials", "Basic Materials", "Real Estate",
     "Communication Services", "Utilities"}

ValuatorStart(method, sd, mc, assumptions) ==
    /\ request = Request(<<method>>, assumptions)
    /\ stock_data = sd
    /\ market_context = mc
    /\ pc = "loop"
    /\ idx = 1
    /\ financial_metrics = NoMetrics
    /\ valuations = <<>>
    /\ calls = <<>>
    /\ seen = <<>>
    /\ warnings = <<>>
    /\ recommendation = ""
    /\ risk_factors = <<>>
    /\ response = NoResponse
    /\ other = NoFrame
    /\ current = 1
    /\ call = NoCall
    /\ now = 0

\* PEG, P/E and comparative calls over the snapshot fields they read
InitValuatorRatios ==
    \E m \in {PEG, PE, COMPARATIVE},
       pe \in {Missing, PyNone, Num(0), Num(-5), Num(10), Num(12), Num(13),
               Num(15), Num(25)},
       eg \in {Missing, PyNone, Num(0), R(-1, 10), R(1, 10), R(1, 8)},
       eps \in {Missing, PyNone, Num(0), Num(2)},
       cp \in {Missing, PyNone, Num(0), Num(20)},
       mc \in {EmptyContext, Context(R(2, 5))},
       assumptions \in {NoAssumptions, SmallAssumptions} :
        ValuatorStart(m,
                      [BaseData EXCEPT !.pe_ratio = pe, !.earnings_growth = eg,
                                       !.eps = eps, !.current_price = cp],
                      mc, assumptions)

\* P/E calls over the sector and the distance of the P/E from the sector's
InitValuatorSectors ==
    \E sector \in Sectors \cup {"", "Unknown", "<None>", "<missing>"},
       pe \in {Num(10), Num(18), Num(22), Num(26), R(55, 2)},
       eps \in {Missing, Num(2)} :
        ValuatorStart(PE,
                      [BaseData EXCEPT !.pe_ratio = pe, !.eps = eps,
                                       !.sector = sector],
                      EmptyContext, NoAssumptions)

\* Comparative calls over everything but the current price
InitValuatorComparative ==
    \E cp \in {Num(-3), Num(0), R(1, 2), Num(20), Num(100)},
       pe \in {Missing, PyNone, Num(10)},
       fcf \in {Missing, PyNone, Num(1)},
       sector \in {"Technology", "<None>"},
       mc \in {EmptyContext, Context(R(2, 5))},
       assumptions \in {NoAssumptions, EmptyAssumptions, SmallAssumptions} :
        ValuatorStart(COMPARATIVE,
                      [BaseData EXCEPT !.current_price = cp, !.pe_ratio = pe,
                                       !.free_cash_flow = fcf,
                                       !.sector = sector],
                      mc, assumptions)

InitValuator ==
    \/ InitValuatorRatios
    \/ InitValuatorSectors
    \/ InitValuatorComparative

NextValuator == Valuate

SpecValuator == InitValuator /\ [][NextValuator]_vars

(***************************************************************************)
(* Two requests handled by the one event loop.  The variables of           *)
(* perform_valuation are the locals of the coroutine that is running; the  *)
(* frame of the suspended one is kept in `other`.  The module-level        *)
(* valuation_engine and data_retriever have no attributes, so the two      *)
(* coroutines share no variable but the clock.                             *)
(***************************************************************************)
Frame ==
    [request |-> request, stock_data |-> stock_data,
     market_context |-> market_context, pc |-> pc, idx |-> idx,
     financial_metrics |-> financial_metrics, valuations |-> valuations,
     calls |-> calls, seen |-> seen, warnings |-> warnings,
     recommendation |-> recommendation, risk_factors |-> risk_factors,
     response |-> response]

StartFrame(req, sd, mc) ==
    [request |-> req, stock_data |-> sd, market_context |-> mc,
     pc |-> "start", idx |-> 0, financial_metrics |-> NoMetrics,
     valuations |-> <<>>, calls |-> <<>>, seen |-> <<>>, warnings |-> <<>>,
     recommendation |-> "", risk_factors |-> <<>>, response |-> NoResponse]

\* Switch with valuations a module-level list, not a local of the coroutine
Switch_sharedvaluations ==
    /\ pc \in {"start", "loop", "done"}
    /\ other.pc # "absent"
    /\ other' = Frame
    /\ current' = 3 - current
    /\ request' = other.request
    /\ stock_data' = other.stock_data
    /\ market_context' = other.market_context
    /\ pc' = other.pc
    /\ idx' = other.idx
    /\ financial_metrics' = other.financial_metrics
    /\ UNCHANGED valuations
    /\ calls' = other.calls
    /\ seen' = other.seen
    /\ warnings' = other.warnings
    /\ recommendation' = other.recommendation
    /\ risk_factors' = other.risk_factors
    /\ response' = other.response
    /\ UNCHANGED <<call, now>>

\* The running coroutine is suspended at an await (the retrievals, a
\* perform_single_valuation call) or has returned, and the event loop
\* resumes the other one.
Switch ==
    /\ pc \in {"start", "loop", "done"}
    /\ other.pc # "absent"
    /\ other' = Frame
    /\ current' = 3 - current
    /\ request' = other.request
    /\ stock_data' = other.stock_data
    /\ market_context' = other.market_context
    /\ pc' = other.pc
    /\ idx' = other.idx
    /\ financial_metrics' = other.financial_metrics
    /\ valuations' = other.valuations
    /\ calls' = other.calls
    /\ seen' = other.seen
    /\ warnings' = other.warnings
    /\ recommendation' = other.recommendation
    /\ risk_factors' = other.risk_factors
    /\ response' = other.response
    /\ UNCHANGED <<call, now>>

\* What a request is handled with: its methods and assumptions, and the
\* snapshot and market context retrieved for its symbol.
ConcurrentInputs ==
    {<<Request(methods, assumptions), sd[1], sd[2]>> :
        methods \in {<<DCF>>, <<PEG, COMPARATIVE>>, <<PE, DCF, PEG>>},
        assumptions \in {NoAssumptions, SmallAssumptions},
        sd \in {<<BaseData, Context(R(2, 5))>>,
                <<[BaseData EXCEPT !.earnings_growth = PyNone],
                  Context(R(1, 20))>>,
                <<[BaseData EXCEPT !.pe_ratio = PyNone], Context(R(1, 20))>>,
                <<NoData, EmptyContext>>}}

InitConcurrent ==
    \E a, b \in ConcurrentInputs :
        /\ request = a[1]
        /\ stock_data = a[2]
        /\ market_context = a[3]
        /\ pc = "start"
        /\ idx = 0
        /\ financial_metrics = NoMetrics
        /\ valuations = <<>>
        /\ calls = <<>>
        /\ seen = <<>>
        /\ warnings = <<>>
        /\ recommendation = ""
        /\ risk_factors = <<>>
        /\ response = NoResponse
        /\ other = StartFrame(b[1], b[2], b[3])
        /\ current = 1
        /\ call = NoCall
        /\ now = 0

NextConcurrent ==
    \/ NotFound
    \/ ExtractMetrics
    \/ Valuate
    \/ GenerateRecommendation
    \/ IdentifyRiskFactors
    \/ Respond
    \/ Switch

SpecConcurrent == InitConcurrent /\ [][NextConcurrent]_vars

(***************************************************************************)
(* routers/powerbi.py: format_valuation_for_powerbi.  Its argument is the  *)
(* JSON of a valuation response: a dict whose values are numbers, strings, *)
(* None, or lists; a key the dict does not hold is Missing.                *)
(***************************************************************************)
List(v) == [t |-> "list", n |-> 0, d |-> 1, v |-> v]

\* sep.join(items), as the sequence of the pieces of the string
RECURSIVE Join(_, _)
Join(sep, items) ==
    IF Len(items) <= 1 THEN items
    ELSE <<Head(items), sep>> \o Join(sep, Tail(items))

\* valuation.get("confidence_interval", [0, 0])[i]
IntervalItem(valuation, i) ==
    LET interval == Get(valuation, "confidence_interval",
                        List(<<Num(0), Num(0)>>))
    IN  IF interval.t # "list" THEN Raise("TypeError")
        ELSE IF Len(interval.v) < i THEN Raise("IndexError")
        ELSE Ok(interval.v[i])

\* The exception building a row raises, "" when it raises none
RowError(valuation) ==
    IF ~IntervalItem(valuation, 1).ok THEN IntervalItem(valuation, 1).error
    ELSE IF ~IntervalItem(valuation, 2).ok
    THEN IntervalItem(valuation, 2).error
    ELSE ""

\* format_valuation_for_powerbi with the two interval components exchanged
format_valuation_for_powerbi_swapped(valuation_data) ==
    LET risks == Get(valuation_data, "risk_factors", List(<<>>))
        outcomes == Get(valuation_data, "valuations", List(<<>>))
    IN
    IF risks.t # "list" \/ outcomes.t # "list" THEN Raise("TypeError")
    ELSE IF \E k \in 1..Len(outcomes.v) : RowError(outcomes.v[k]) # ""
    THEN Raise(RowError(outcomes.v[
                   CHOOSE k \in 1..Len(outcomes.v) :
                       /\ RowError(outcomes.v[k]) # ""
                       /\ \A j \in 1..(k - 1) :
                              RowError(outcomes.v[j]) = ""]))
    ELSE Ok([timestamp |-> "2024-01-01T00:00:00Z",
             stock_symbol |-> Get1(valuation_data, "stock_symbol"),
             current_price |-> Get1(valuation_data, "current_price"),
             recommendation |-> Get1(valuation_data, "recommendation"),
             risk_factors |-> Join(", ", risks.v),
             valuation_methods |->
                 [k \in 1..Len(outcomes.v) |->
                     [method |-> Get1(outcomes.v[k], "method"),
                      estimated_value |->
                          Get1(outcomes.v[k], "estimated_value"),
                      confidence_lower |->
                          IntervalItem(outcomes.v[k], 2).value,
                      confidence_upper |->
                          IntervalItem(outcomes.v[k], 1).value]]])

\* The loop stops at the first outcome whose row raises.
format_valuation_for_powerbi(valuation_data) ==
    LET risks == Get(valuation_data, "risk_factors", List(<<>>))
        outcomes == Get(valuation_data, "valuations", List(<<>>))
    IN
    IF risks.t # "list" \/ outcomes.t # "list" THEN Raise("TypeError")
    ELSE IF \E k \in 1..Len(outcomes.v) : RowError(outcomes.v[k]) # ""
    THEN Raise(RowError(outcomes.v[
                   CHOOSE k \in 1..Len(outcomes.v) :
                       /\ RowError(outcomes.v[k]) # ""
                       /\ \A j \in 1..(k - 1) :
                              RowError(outcomes.v[j]) = ""]))
    ELSE Ok([timestamp |-> "2024-01-01T00:00:00Z",
             stock_symbol |-> Get1(valuation_data, "stock_symbol"),
             current_price |-> Get1(valuation_data, "current_price"),
             recommendation |-> Get1(valuation_data, "recommendation"),
             risk_factors |-> Join(", ", risks.v),
             valuation_methods |->
                 [k \in 1..Len(outcomes.v) |->
                     [method |-> Get1(outcomes.v[k], "method"),
                      estimated_value |->
                          Get1(outcomes.v[k], "estimated_value"),
                      confidence_lower |->
                          IntervalItem(outcomes.v[k], 1).value,
                      confidence_upper |->
                          IntervalItem(outcomes.v[k], 2).value]]])

(***************************************************************************)
(* One call of a helper on arbitrary arguments: _discount_cash_flows,      *)
(* _project_cash_flows or format_valuation_for_powerbi.  `call` holds the  *)
(* function, the arguments as the caller passed them, and the result once  *)
(* the call has returned.  No request is being handled.                    *)
(***************************************************************************)
Str(s) == [t |-> "str", n |-> 0, d |-> 1, v |-> s]

Calling(fn, args) ==
    /\ call = [fn |-> fn, args |-> args, returned |-> FALSE,
               result |-> Raise("")]
    /\ request = Request(<<>>, NoAssumptions)
    /\ stock_data = NoData
    /\ market_context = EmptyContext
    /\ pc = "idle"
    /\ idx = 0
    /\ financial_metrics = NoMetrics
    /\ valuations = <<>>
    /\ calls = <<>>
    /\ seen = <<>>
    /\ warnings = <<>>
    /\ recommendation = ""
    /\ risk_factors = <<>>
    /\ response = NoResponse
    /\ other = NoFrame
    /\ current = 1
    /\ now = 0

Flows == {Num(-3), Num(0), R(1, 2), Num(2), Num(100)}
Rates == {Num(-2), Num(-1), R(-1, 2), Num(0), R(1, 100), R(1, 10), R(1, 2),
          Num(1), Num(3), PyNone}

InitDiscount ==
    \E cash_flows \in SeqsUpTo(Flows, MaxFlows), discount_rate \in Rates :
        Calling("_discount_cash_flows",
                [cash_flows |-> cash_flows, discount_rate |-> discount_rate])

InitProject ==
    \E initial_fcf \in Flows \cup {PyNone}, growth_rate \in Rates,
       years \in {Num(y) : y \in -1..MaxYears} \cup {R(3, 2), PyNone} :
        Calling("_project_cash_flows",
                [initial_fcf |-> initial_fcf, growth_rate |-> growth_rate,
                 years |-> years])

\* The outcomes of a response's JSON, and dicts that are not such outcomes
OutcomeDicts ==
    {[method |-> Str(DCF), estimated_value |-> Num(10),
      confidence_interval |-> List(<<Num(8), Num(12)>>)],
     [method |-> Str(PEG), estimated_value |-> Num(-2),
      confidence_interval |-> List(<<R(-8, 5), R(-12, 5)>>)],
     [method |-> Str(PE), estimated_value |-> Num(36),
      confidence_interval |-> List(<<R(126, 5), R(234, 5)>>)],
     [method |-> Str(DCF), estimated_value |-> Num(10),
      confidence_interval |-> Missing],
     [method |-> Missing, estimated_value |-> Missing,
      confidence_interval |-> PyNone],
     [method |-> Str(COMPARATIVE), estimated_value |-> Num(11),
      confidence_interval |-> List(<<R(44, 5)>>)]}

InitFormat ==
    \E outcomes \in SeqsUpTo(OutcomeDicts, MaxRows),
       vs \in {"list", "missing", "none"},
       risks \in {Missing, PyNone, List(<<>>), List(<<"High debt levels">>),
                  List(<<"High debt levels", "High P/E ratio",
                         "High market volatility">>)} :
        /\ vs # "list" => outcomes = <<>>
        /\ Calling("format_valuation_for_powerbi",
                   [valuation_data |->
                       [stock_symbol |-> Str("AAPL"),
                        current_price |-> Num(10),
                        recommendation |-> Str("HOLD"),
                        risk_factors |-> risks,
                        valuations |->
                            IF vs = "list" THEN List(outcomes)
                            ELSE IF vs = "missing" THEN Missing
                            ELSE PyNone]])

InitHelpers == InitDiscount \/ InitProject \/ InitFormat

Returns(result) ==
    /\ ~call.returned
    /\ call' = [call EXCEPT !.returned = TRUE, !.result = result]
    /\ UNCHANGED <<request, stock_data, market_context, pc, idx,
                   financial_metrics, valuations, calls, seen, warnings,
                   recommendation, risk_factors, response, other, current,
                   now>>

DiscountCashFlows ==
    /\ call.fn = "_discount_cash_flows"
    /\ Returns(_discount_cash_flows(call.args.cash_flows,
                                     call.args.discount_rate))

ProjectCashFlows ==
    /\ call.fn = "_project_cash_flows"
    /\ Returns(_project_cash_flows(call.args.initial_fcf,
                                    call.args.growth_rate, call.args.years))

FormatValuationForPowerBI ==
    /\ call.fn = "format_valuation_for_powerbi"
    /\ Returns(format_valuation_for_powerbi(call.args.valuation_data))

NextHelpers ==
    \/ DiscountCashFlows
    \/ ProjectCashFlows
    \/ FormatValuationForPowerBI

SpecHelpers == InitHelpers /\ [][NextHelpers]_vars


(***************************************************************************)
(* Properties.                                                             *)
(***************************************************************************)
Methods == request.valuation_methods

\* Whether the valuator of the k-th requested method returns an outcome.
Succeeds(k) ==
    perform_single_valuation(Methods[k], stock_data, market_context,
                             request.assumptions).ok

\* The first k requested methods with the failing entries removed.
RECURSIVE Kept(_)
Kept(k) ==
    IF k = 0 THEN <<>>
    ELSE IF Succeeds(k) THEN Append(Kept(k - 1), Methods[k])
    ELSE Kept(k - 1)

MethodsOf(vs) == [k \in 1..Len(vs) |-> vs[k].method]

RiskDerivable == identify_risk_factors(stock_data, market_context).ok

\* What the loop guarantees on its own: once it is entered every requested
\* method is invoked, failures or not; each invocation either adds an
\* outcome or logs a warning; the loop runs to the end of the list; and the
\* request then fails exactly when risk-factor derivation raises.
LoopIsolatesFailures ==
    idx >= 1 =>
        /\ calls = SubSeq(Methods, 1, idx - 1)
        /\ Len(valuations) = Cardinality({k \in 1..(idx - 1) : Succeeds(k)})
        /\ Len(warnings) = Cardinality({k \in 1..(idx - 1) : ~Succeeds(k)})
        /\ pc # "loop" => idx = Len(Methods) + 1
        /\ pc = "done" => (response.status = "200" <=> RiskDerivable)

\* C1: a request in which some valuator raised still completes with a
\* normal response, in which every method was invoked and only the
\* succeeding ones have an outcome.
C1_CompletesDespiteFailures ==
    (pc = "done" /\ idx >= 1 /\ \E k \in 1..Len(Methods) : ~Succeeds(k)) =>
        /\ response.status = "200"
        /\ calls = Methods
        /\ Len(response.valuations) =
               Cardinality({k \in 1..Len(Methods) : Succeeds(k)})

\* C2: the methods of the outcomes, in order, are the requested methods with
\* the failed entries removed: in the list the loop builds and in the
\* response.
C2_OrderMirrorsRequest ==
    /\ idx >= 1 => MethodsOf(valuations) = Kept(idx - 1)
    /\ response.status = "200" =>
           MethodsOf(response.valuations) = Kept(Len(Methods))

\* C2 witness: a response in which a method requested twice succeeded twice
\* around a failed one.
C2_Witness ==
    /\ response.status = "200"
    /\ \E i, j, k \in 1..Len(Methods) :
           /\ i < j /\ j < k
           /\ Methods[i] = Methods[k] /\ Methods[j] # Methods[i]
           /\ Succeeds(i) /\ ~Succeeds(j) /\ Succeeds(k)
    /\ Len(response.valuations) = 2

\* What generate_recommendation guarantees on its own: with no outcome
\* after the loop the recommendation is the insufficient-data string and no
\* ZeroDivisionError reaches the handler.
NoOutcomesShortCircuit ==
    (idx > Len(Methods) /\ valuations = <<>>) =>
        /\ pc # "loop" => recommendation = InsufficientData
        /\ response.detail # "ZeroDivisionError"

\* C3: when every requested method failed, or none was requested, the
\* request does not fail: the response carries zero outcomes and the
\* insufficient-data recommendation.
C3_NoOutcomesResponse ==
    (pc = "done" /\ idx >= 1 /\ \A k \in 1..Len(Methods) : ~Succeeds(k)) =>
        /\ response.status = "200"
        /\ response.valuations = <<>>
        /\ response.recommendation = InsufficientData

(***************************************************************************)
(* generate_recommendation, under SpecRecommendation: the estimates and    *)
(* the price are whole numbers there, so the mean m = S/n is compared with *)
(* the thresholds in integers: m > 1.20p is 5S > 6pn, m > 1.05p is         *)
(* 20S > 21pn, m < 0.80p is 5S < 4pn, m < 0.95p is 20S < 19pn.             *)
(***************************************************************************)
RECURSIVE SumN(_)
SumN(vs) == IF vs = <<>> THEN 0 ELSE Head(vs).estimated_value.n + SumN(Tail(vs))

Recommended == pc # "loop" /\ Len(valuations) > 0

\* The label is the first of the five whose comparison holds.
ThresholdChain(S, n, p) ==
    /\ 5 * S > 6 * p * n => recommendation = StrongBuy
    /\ (5 * S <= 6 * p * n /\ 20 * S > 21 * p * n) => recommendation = Buy
    /\ (20 * S <= 21 * p * n /\ 5 * S < 4 * p * n) => recommendation = Sell
    /\ (20 * S <= 21 * p * n /\ 5 * S >= 4 * p * n /\ 20 * S < 19 * p * n)
           => recommendation = HoldDownside
    /\ (5 * S <= 6 * p * n /\ 20 * S <= 21 * p * n /\ 5 * S >= 4 * p * n
            /\ 20 * S >= 19 * p * n) => recommendation = HoldFair
    /\ recommendation \in {StrongBuy, Buy, Sell, HoldDownside, HoldFair}

\* What the mean gives when it is exactly on a threshold.
ThresholdBoundaries(S, n, p) ==
    /\ 5 * S = 6 * p * n => recommendation = Buy
    /\ 20 * S = 21 * p * n => recommendation = HoldFair
    /\ 20 * S = 19 * p * n => recommendation = HoldFair
    /\ 5 * S = 4 * p * n => recommendation = HoldDownside

\* C4 (as amended): for every non-empty list of outcomes with mean m and
\* every current price p the label is Strong Buy if m > 1.20p, else Buy if
\* m > 1.05p, else Sell if m < 0.80p, else Hold (slight downside) if
\* m < 0.95p, else Hold (fair value); and for p > 0, m = 1.20p gives Buy,
\* m = 1.05p and m = 0.95p give Hold (fair value), m = 0.80p gives Hold
\* (slight downside).
C4_Thresholds ==
    Recommended =>
        LET S == SumN(valuations)
            n == Len(valuations)
            p == financial_metrics.current_price.n
        IN  /\ ThresholdChain(S, n, p)
            /\ p > 0 => ThresholdBoundaries(S, n, p)
            /\ response.status = "200" =>
                   response.recommendation = recommendation

\* C4 witness: two outcomes whose mean is exactly 1.20 times the price of 20
\* were recommended Buy.
C4_Witness ==
    /\ response.status = "200"
    /\ Len(valuations) = 2
    /\ financial_metrics.current_price = Num(20)
    /\ SumN(valuations) = 48
    /\ response.recommendation = Buy

\* C4 (as claimed): the same, with the four boundary outcomes for every
\* current price p.
C4_ThresholdsAnyPrice ==
    Recommended =>
        LET S == SumN(valuations)
            n == Len(valuations)
            p == financial_metrics.current_price.n
        IN  /\ ThresholdChain(S, n, p)
            /\ ThresholdBoundaries(S, n, p)

(***************************************************************************)
(* identify_risk_factors.  The rules are restated on the inputs, in        *)
(* integers: a field that is missing fires no rule.                        *)
(***************************************************************************)
RiskComputed == pc = "respond" \/ response.status = "200"

Exceeds(x, num, den) == x.t = "num" /\ den * x.n > num * x.d
DebtRuleFires == Exceeds(stock_data.debt_to_equity, 1, 1)
PERuleFires == Exceeds(stock_data.pe_ratio, 30, 1)
VolatilityRuleFires == Exceeds(market_context.market_volatility, 3, 10)

Listed(f) == \E k \in 1..Len(risk_factors) : risk_factors[k] = f

\* C5: the risk-factor list is never empty, has no duplicate entry, and
\* holds the sentinel exactly when no rule fired, and then nothing else.
C5_RiskListShape ==
    RiskComputed =>
        /\ risk_factors # <<>>
        /\ \A j, k \in 1..Len(risk_factors) :
               j # k => risk_factors[j] # risk_factors[k]
        /\ Listed(NoRisk) <=>
               ~(DebtRuleFires \/ PERuleFires \/ VolatilityRuleFires)
        /\ Listed(NoRisk) => risk_factors = <<NoRisk>>
        /\ response.status = "200" => response.risk_factors = risk_factors

\* C5 witness: debt_to_equity 0.5, pe_ratio 12, market volatility 0.05 gave
\* the sentinel alone.
C5_Witness ==
    /\ response.status = "200"
    /\ stock_data.debt_to_equity = R(1, 2)
    /\ stock_data.pe_ratio = Num(12)
    /\ market_context.market_volatility = R(1, 20)
    /\ response.risk_factors = <<NoRisk>>

\* C6: the debt flag is listed exactly when debt_to_equity > 1.0, the P/E
\* flag exactly when pe_ratio > 30, the volatility flag exactly when
\* market_volatility > 0.3 (strict; a missing field fires nothing), and the
\* flags listed are in the order debt, P/E, volatility.
C6_RuleFlags ==
    RiskComputed =>
        /\ Listed(HighDebt) <=> DebtRuleFires
        /\ Listed(HighPE) <=> PERuleFires
        /\ Listed(HighVolatility) <=> VolatilityRuleFires
        /\ \A j, k \in 1..Len(risk_factors) :
               /\ (risk_factors[j] = HighPE /\ risk_factors[k] = HighDebt)
                      => k < j
               /\ (risk_factors[j] = HighVolatility
                      /\ risk_factors[k] \in {HighDebt, HighPE}) => k < j

\* C6 witness: debt_to_equity exactly 1.0 fired nothing while pe_ratio 31
\* and volatility 0.4 were flagged in that order.
C6_Witness ==
    /\ RiskComputed
    /\ stock_data.debt_to_equity = Num(1)
    /\ stock_data.pe_ratio = Num(31)
    /\ market_context.market_volatility = R(2, 5)
    /\ risk_factors = <<HighPE, HighVolatility>>

(***************************************************************************)
(* The valuators.                                                          *)
(***************************************************************************)
DcfOutcomes == {k \in 1..Len(valuations) : valuations[k].method = DCF}

\* C7: every outcome's confidence interval has lower <= upper.
C7_IntervalOrdered ==
    \A k \in 1..Len(valuations) :
        RLe(valuations[k].confidence_interval[1],
            valuations[k].confidence_interval[2])

C9_DivergentGrowthFails ==
    \A k \in DcfOutcomes :
        LET a == valuations[k].assumptions
        IN  /\ RGt(a.discount_rate, a.terminal_growth)
            /\ _calculate_terminal_value(Num(1), a.terminal_growth,
                                         a.discount_rate).ok

\* The DCF estimate restated from the inputs: the i-th discounted flow is
\* fcf * ((1+g)/(1+r))^i, the discounted terminal value is
\* fcf * (1+g)^n * (1+tg) / ((r - tg) * (1+r)^n).
RECURSIVE GeometricSum(_, _)
GeometricSum(q, n) ==
    IF n = 0 THEN Num(0) ELSE RAdd(RPow(q, n), GeometricSum(q, n - 1))

DcfEquity(fcf, g, r, tg, n, debt, cash) ==
    LET q == RDiv(RAdd(Num(1), g), RAdd(Num(1), r))
        flows == RMul(fcf, GeometricSum(q, n))
        terminal == RDiv(RMul(RMul(fcf, RPow(q, n)), RAdd(Num(1), tg)),
                         RSub(r, tg))
    IN  RAdd(RSub(RAdd(flows, terminal), debt), cash)

\* C10: with positive shares outstanding a DCF outcome's estimate is (sum of
\* the discounted flows + discounted terminal value - total_debt +
\* total_cash) / shares_outstanding, negative when that equity value is
\* negative, and its interval is (0.8, 1.2) times the estimate.
C10_DcfEstimate ==
    \A k \in DcfOutcomes :
        LET v == valuations[k]
            a == v.assumptions
            shares == Get(stock_data, "shares_outstanding", Num(1))
            equity == DcfEquity(Get(stock_data, "free_cash_flow", Num(0)),
                                a.growth_rate, a.discount_rate,
                                a.terminal_growth, a.projection_years.n,
                                Get(stock_data, "total_debt", Num(0)),
                                Get(stock_data, "total_cash", Num(0)))
        IN  shares.n > 0 =>
                /\ v.estimated_value = RDiv(equity, shares)
                /\ equity.n < 0 => v.estimated_value.n < 0
                /\ v.confidence_interval =
                       <<RMul(v.estimated_value, R(4, 5)),
                         RMul(v.estimated_value, R(6, 5))>>

\* C10 witness: a DCF outcome for 2 shares outstanding and a debt of 50 has
\* a negative estimate.
C10_Witness ==
    /\ response.status = "200"
    /\ stock_data.shares_outstanding = Num(2)
    /\ stock_data.total_debt = Num(50)
    /\ \E k \in DcfOutcomes : valuations[k].estimated_value.n < 0

DcfWarnings == {k \in 1..Len(warnings) : warnings[k].method = DCF}

\* The equity value of the snapshot under the outcome's resolved assumptions.
EquityOf(a) ==
    DcfEquity(Get(stock_data, "free_cash_flow", Num(0)),
              a.growth_rate, a.discount_rate, a.terminal_growth,
              a.projection_years.n,
              Get(stock_data, "total_debt", Num(0)),
              Get(stock_data, "total_cash", Num(0)))

DcfKeys == {"growth_rate", "discount_rate", "terminal_growth", "projection_years"}

DcfDefault(key) ==
    CASE key = "growth_rate" -> R(1, 20)
      [] key = "discount_rate" -> R(1, 10)
      [] key = "terminal_growth" -> R(1, 50)
      [] key = "projection_years" -> Num(5)

\* The caller supplied an override for the key.
Overrides(key) ==
    request.assumptions.dict /\ request.assumptions[key].t # "missing"

Resolved(key) ==
    IF Overrides(key) THEN request.assumptions[key] ELSE DcfDefault(key)

SharesZeroOrAbsent ==
    \/ stock_data.shares_outstanding.t = "missing"
    \/ stock_data.shares_outstanding = Num(0)

\* C11: with shares_outstanding zero or not in the snapshot, a DCF outcome's
\* estimate is the equity value itself (enterprise value - total debt +
\* total cash), and the only divisions by zero a DCF call can raise are
\* those of the rates (discount_rate = terminal_growth, discount_rate = -1),
\* never one by the share count.
C11_ZeroSharesEquity ==
    (stock_data.exists /\ SharesZeroOrAbsent) =>
        /\ \A k \in DcfOutcomes :
               LET v == valuations[k]
               IN  /\ v.estimated_value = EquityOf(v.assumptions)
                   /\ v.estimated_value = v.calculation_details.equity_value
        /\ \A k \in DcfWarnings :
               warnings[k].error = "ZeroDivisionError" =>
                   \/ Resolved("discount_rate") = Resolved("terminal_growth")
                   \/ Resolved("discount_rate") = Num(-1)

\* C11 witness: a DCF outcome for a snapshot with shares_outstanding 0, a
\* debt of 50 and cash of 3, whose estimate is the non-zero equity value.
C11_Witness ==
    /\ stock_data.shares_outstanding = Num(0)
    /\ stock_data.total_debt = Num(50)
    /\ stock_data.total_cash = Num(3)
    /\ \E k \in DcfOutcomes :
           /\ valuations[k].estimated_value =
                  valuations[k].calculation_details.equity_value
           /\ valuations[k].estimated_value.n # 0

\* C12: the assumptions of a DCF outcome have exactly the four keys; each is
\* the caller's override when the caller supplied one and the default
\* otherwise (no assumptions, an empty mapping, a partial one); and the
\* estimate is the one computed from those resolved values.
C12_ResolvedAssumptions ==
    \A k \in DcfOutcomes :
        LET v == valuations[k]
            shares == Get(stock_data, "shares_outstanding", Num(1))
            equity == EquityOf([key \in DcfKeys |-> Resolved(key)])
        IN  /\ DOMAIN v.assumptions = DcfKeys
            /\ \A key \in DcfKeys : v.assumptions[key] = Resolved(key)
            /\ Len(v.calculation_details.projected_cash_flows) =
                   Resolved("projection_years").n
            /\ v.estimated_value =
                   IF shares.n > 0 THEN RDiv(equity, shares) ELSE equity

\* C12 witness: a DCF outcome for a mapping that overrides growth_rate and
\* projection_years only, next to an unrecognized key: 0.5 and 2 are
\* recorded with the defaults 0.10 and 0.02.
C12_Witness ==
    /\ request.assumptions.growth_rate = R(1, 2)
    /\ request.assumptions.projection_years = Num(2)
    /\ request.assumptions.discount_rate = Missing
    /\ request.assumptions.terminal_growth = Missing
    /\ request.assumptions.unrecognized = Num(7)
    /\ \E k \in DcfOutcomes :
           valuations[k].assumptions =
               [growth_rate |-> R(1, 2), discount_rate |-> R(1, 10),
                terminal_growth |-> R(1, 50), projection_years |-> Num(2)]

(***************************************************************************)
(* The inputs of a request.                                                *)
(***************************************************************************)
Inputs ==
    [stock_data |-> stock_data, market_context |-> market_context,
     assumptions |-> request.assumptions]

\* C13: no step of a request changes the caller's assumptions, the snapshot
\* or the market context, whichever methods succeed or fail, and every
\* valuator call of the batch was handed those same values.
C13_InputsUnchanged ==
    /\ [][/\ request' = request
          /\ stock_data' = stock_data
          /\ market_context' = market_context]_vars
    /\ [](\A k \in 1..Len(seen) : seen[k] = Inputs)

\* C13 witness: a completed request with a caller-supplied mapping in which
\* one method failed and two succeeded, all three handed the same inputs.
C13_Witness ==
    /\ response.status = "200"
    /\ request.assumptions.dict
    /\ Len(seen) = 3
    /\ Len(warnings) = 1
    /\ Len(valuations) = 2
    /\ \A k \in 1..Len(seen) : seen[k] = Inputs

(***************************************************************************)
(* The ratio valuators, under SpecValuator.                                *)
(***************************************************************************)
Called(method) == \E k \in 1..Len(calls) : calls[k] = method
OutcomesOf(method) == {k \in 1..Len(valuations) : valuations[k].method = method}

\* The snapshot holds a figure for the field: the key is there and its
\* value is a number.
Present(field) == stock_data[field].t = "num"

\* C14: a PEG call returns an outcome exactly when the snapshot holds both a
\* P/E ratio and an earnings-growth rate, and fails otherwise.
C14_PegNeedsRatios ==
    Called(PEG) =>
        (OutcomesOf(PEG) # {} <=> Present("pe_ratio") /\ Present("earnings_growth"))

NonZero(field) == Present(field) /\ stock_data[field].n # 0

\* What peg_valuation does: it returns an outcome exactly when pe_ratio and
\* earnings_growth are numbers other than 0, current_price is not None and
\* eps is not None.
PegOutcomeExactly ==
    Called(PEG) =>
        (OutcomesOf(PEG) # {} <=>
            /\ NonZero("pe_ratio") /\ NonZero("earnings_growth")
            /\ stock_data.current_price.t # "none"
            /\ stock_data.eps.t # "none")

\* The EPS a ratio valuator uses: the snapshot's when the key is there,
\* else current_price / pe_ratio, a price that is not there being read as 0.
EpsUsed ==
    IF stock_data.eps.t # "missing" THEN stock_data.eps
    ELSE RDiv(Get(stock_data, "current_price", Num(0)), stock_data.pe_ratio)

\* C15: a PEG outcome has peg_ratio = pe_ratio / (earnings_growth * 100),
\* fair P/E = earnings_growth * 100 and estimated_value = fair P/E * eps,
\* eps being the snapshot's when supplied and current_price / pe_ratio
\* otherwise.
C15_PegEstimate ==
    \A k \in OutcomesOf(PEG) :
        LET v == valuations[k]
            pe == stock_data.pe_ratio
            growth100 == RMul(stock_data.earnings_growth, Num(100))
        IN  /\ v.calculation_details.peg_ratio = RDiv(pe, growth100)
            /\ v.calculation_details.fair_pe_ratio = growth100
            /\ v.estimated_value = RMul(growth100, EpsUsed)

\* C15 witness: P/E 25, growth 0.125, price 20 and no eps gave a PEG outcome
\* with peg_ratio 2, fair P/E 12.5 and the estimate 12.5 * 20/25 = 10.
C15_Witness ==
    /\ stock_data.pe_ratio = Num(25)
    /\ stock_data.earnings_growth = R(1, 8)
    /\ stock_data.current_price = Num(20)
    /\ stock_data.eps = Missing
    /\ \E k \in OutcomesOf(PEG) :
           /\ valuations[k].calculation_details.peg_ratio = Num(2)
           /\ valuations[k].calculation_details.fair_pe_ratio = R(25, 2)
           /\ valuations[k].estimated_value = Num(10)

\* estimate * (1 - w, 1 + w) for w = tenths / 10
Band(estimate, tenths) ==
    <<RMul(estimate, R(10 - tenths, 10)), RMul(estimate, R(10 + tenths, 10))>>

\* The tier of a deviation num / den (den > 0) between the limits
\* lo / 10 and hi / 10: 1 below lo / 10, 2 from there to below hi / 10, 3
\* from hi / 10 on.
Tier(num, den, lo, hi) ==
    IF 10 * num < lo * den THEN 1
    ELSE IF 10 * num < hi * den THEN 2
    ELSE 3

\* C16: the interval of a PEG outcome is estimate * (1 - w, 1 + w), with
\* w = 10% when d = |peg_ratio - 1.0| < 0.2, 20% when 0.2 <= d < 0.5 and
\* 30% when d >= 0.5.
C16_PegInterval ==
    \A k \in OutcomesOf(PEG) :
        LET v == valuations[k]
            peg == v.calculation_details.peg_ratio
        IN  v.confidence_interval =
                Band(v.estimated_value, Tier(Abs(peg.n - peg.d), peg.d, 2, 5))

\* C16 witness: peg_ratio 1.5, whose deviation is exactly 0.5, gave the band
\* of 30% around a non-zero estimate.
C16_Witness ==
    \E k \in OutcomesOf(PEG) :
        LET v == valuations[k]
        IN  /\ v.calculation_details.peg_ratio = R(3, 2)
            /\ v.estimated_value.n # 0
            /\ v.confidence_interval =
                   <<RMul(v.estimated_value, R(7, 10)),
                     RMul(v.estimated_value, R(13, 10))>>

\* What pe_valuation does: it returns an outcome exactly when pe_ratio is a
\* number other than 0, current_price is not None, and the eps it reads (the
\* snapshot's if the key is there, else current_price / pe_ratio) is a
\* number other than 0.
PeOutcomeExactly ==
    Called(PE) =>
        (OutcomesOf(PE) # {} <=>
            /\ NonZero("pe_ratio")
            /\ stock_data.current_price.t # "none"
            /\ IF stock_data.eps.t = "missing" THEN NonZero("current_price")
               ELSE NonZero("eps"))

\* C17: a P/E call returns an outcome exactly when the snapshot holds a P/E
\* ratio and an EPS, supplied or derivable as current_price / pe_ratio, and
\* fails otherwise.
C17_PeNeedsRatioAndEps ==
    Called(PE) =>
        (OutcomesOf(PE) # {} <=>
            /\ Present("pe_ratio")
            /\ \/ Present("eps")
               \/ Present("current_price") /\ NonZero("pe_ratio"))

IndustryTable ==
    {<<"Technology", 25>>, <<"Healthcare", 20>>, <<"Finance", 15>>,
     <<"Energy", 12>>, <<"Consumer Cyclical", 18>>,
     <<"Consumer Defensive", 16>>, <<"Industrials", 17>>,
     <<"Basic Materials", 14>>, <<"Real Estate", 22>>,
     <<"Communication Services", 23>>, <<"Utilities", 19>>}

\* The table entry of the snapshot's sector, 18 for a sector not in it.
IndustryPE ==
    IF \E e \in IndustryTable : e[1] = stock_data.sector
    THEN (CHOOSE e \in IndustryTable : e[1] = stock_data.sector)[2]
    ELSE 18

\* C18: a P/E outcome's estimate is industry_pe * eps, industry_pe being
\* the table entry of the snapshot's sector for the eleven named sectors
\* and 18.0 for an unrecognized, empty or missing one.
C18_PeEstimate ==
    /\ Cardinality(IndustryTable) = 11
    /\ \A k \in OutcomesOf(PE) :
           LET v == valuations[k]
           IN  /\ v.assumptions.industry_pe_ratio = Num(IndustryPE)
               /\ v.calculation_details.eps = EpsUsed
               /\ v.estimated_value = RMul(Num(IndustryPE), EpsUsed)

\* C18 witness: a snapshot with an empty sector, P/E 10 and eps 2 gave a P/E
\* outcome of 18 * 2 = 36.
C18_Witness ==
    /\ stock_data.sector = ""
    /\ stock_data.eps = Num(2)
    /\ \E k \in OutcomesOf(PE) : valuations[k].estimated_value = Num(36)

\* C19: the interval of a P/E outcome is estimate * (1 - w, 1 + w), with
\* w = 10% when d = |current_pe - industry_pe| / industry_pe < 0.1, 20% when
\* 0.1 <= d < 0.3 and 30% when d >= 0.3.
C19_PeInterval ==
    \A k \in OutcomesOf(PE) :
        LET v == valuations[k]
            pe == stock_data.pe_ratio
        IN  v.confidence_interval =
                Band(v.estimated_value,
                     Tier(Abs(pe.n - IndustryPE * pe.d), IndustryPE * pe.d, 1, 3))

\* C19 witness: P/E 22 against the Healthcare average of 20, a deviation of
\* exactly 0.1, gave the band of 20% around a non-zero estimate.
C19_Witness ==
    /\ stock_data.sector = "Healthcare"
    /\ stock_data.pe_ratio = Num(22)
    /\ \E k \in OutcomesOf(PE) :
           LET v == valuations[k]
           IN  /\ v.estimated_value.n # 0
               /\ v.confidence_interval =
                      <<RMul(v.estimated_value, R(4, 5)),
                        RMul(v.estimated_value, R(6, 5))>>

\* C20: a comparative call on a snapshot that holds a current price returns
\* an outcome with estimated_value = current_price * 1.10 and the interval
\* (0.8, 1.2) * estimate; nothing else of the snapshot, the market context
\* or the assumptions enters the outcome.
C20_ComparativeEstimate ==
    (Called(COMPARATIVE) /\ Present("current_price")) =>
        LET cp == stock_data.current_price
            e == R(11 * cp.n, 10 * cp.d)
        IN  valuations =
                <<[method |-> COMPARATIVE, estimated_value |-> e,
                   confidence_interval |->
                       <<R(4 * e.n, 5 * e.d), R(6 * e.n, 5 * e.d)>>,
                   assumptions |->
                       [peer_comparison |-> TRUE, sector_average |-> TRUE],
                   calculation_details |->
                       [method |-> "placeholder",
                        note |-> "Comparative valuation not yet implemented"]]>>

\* C20 witness: a price of 20 in a snapshot without P/E and free cash flow,
\* an empty market context and caller assumptions gave 22 with (17.6, 26.4).
C20_Witness ==
    /\ stock_data.current_price = Num(20)
    /\ stock_data.pe_ratio = PyNone
    /\ stock_data.free_cash_flow = Missing
    /\ market_context = EmptyContext
    /\ request.assumptions = SmallAssumptions
    /\ Len(valuations) = 1
    /\ valuations[1].method = COMPARATIVE
    /\ valuations[1].estimated_value = Num(22)
    /\ valuations[1].confidence_interval = <<R(88, 5), R(132, 5)>>

(***************************************************************************)
(* Invalid assumptions and an absent snapshot, under Spec.                 *)
(***************************************************************************)
UnrecognizedKey ==
    request.assumptions.dict /\ request.assumptions.unrecognized.t # "missing"

NonPositiveYears ==
    /\ request.assumptions.dict
    /\ request.assumptions.projection_years.t = "num"
    /\ request.assumptions.projection_years.n <= 0

\* What dcf_valuation does with projection_years <= 0: the projection is
\* empty and projected_cash_flows[-1] raises IndexError, so no DCF outcome.
NonPositiveYearsRejected ==
    NonPositiveYears =>
        /\ DcfOutcomes = {}
        /\ \A k \in DcfWarnings : warnings[k].error = "IndexError"

\* C21: a DCF request whose overrides hold an unrecognized key, or a
\* projection_years that is negative or zero, produces no DCF outcome.
C21_InvalidAssumptionsRejected ==
    (UnrecognizedKey \/ NonPositiveYears) => DcfOutcomes = {}

\* C22: for a symbol without snapshot the caller gets an error and no
\* valuator is invoked; on every path the absence check and the extraction
\* of the financial metrics come before the first valuator call.
C22_AbsentSnapshotFatal ==
    /\ ~stock_data.exists =>
           /\ calls = <<>> /\ valuations = <<>>
           /\ financial_metrics = NoMetrics
           /\ pc \in {"start", "done"}
           /\ pc = "done" => response.status = "404"
    /\ calls # <<>> =>
           /\ stock_data.exists
           /\ financial_metrics = extract_financial_metrics(stock_data).value

\* C22 witness: a request for three methods on a symbol without snapshot
\* ended with the 404 error and no valuator call.
C22_Witness ==
    /\ ~stock_data.exists
    /\ Len(Methods) = 3
    /\ pc = "done"
    /\ response.status = "404"
    /\ calls = <<>>

(***************************************************************************)
(* Two requests, under SpecConcurrent.                                     *)
(***************************************************************************)
\* The outcomes of the first k requested methods, called one after the
\* other on the request's own inputs.
RECURSIVE AloneValuations(_, _, _, _)
AloneValuations(req, sd, mc, k) ==
    IF k = 0 THEN <<>>
    ELSE LET r == perform_single_valuation(req.valuation_methods[k], sd, mc,
                                           req.assumptions)
             rest == AloneValuations(req, sd, mc, k - 1)
         IN  IF r.ok THEN Append(rest, r.value) ELSE rest

\* What the caller is told when the request is handled alone.
AloneOutcome(req, sd, mc) ==
    LET failed(status) == [status |-> status, valuations |-> <<>>,
                           recommendation |-> "", risk_factors |-> <<>>]
        metrics == extract_financial_metrics(sd)
        vs == AloneValuations(req, sd, mc, Len(req.valuation_methods))
        rec == generate_recommendation(vs, metrics.value)
        risk == identify_risk_factors(sd, mc)
    IN  IF ~sd.exists THEN failed("404")
        ELSE IF ~metrics.ok \/ ~rec.ok \/ ~risk.ok THEN failed("500")
        ELSE [status |-> "200", valuations |-> vs,
              recommendation |-> rec.value, risk_factors |-> risk.value]

\* What the caller was told, without the time stamp and the error text.
Told(resp) ==
    [status |-> resp.status, valuations |-> resp.valuations,
     recommendation |-> resp.recommendation,
     risk_factors |-> resp.risk_factors]

\* The sequential handler computes AloneOutcome (an invariant of Spec).
AloneIsSequential ==
    pc = "done" =>
        Told(response) = AloneOutcome(request, stock_data, market_context)

InputsOfFrame(f) ==
    [request |-> f.request, stock_data |-> f.stock_data,
     market_context |-> f.market_context]

\* The frame and the inputs of request 1 and of request 2.
FrameOf(id) == IF current = id THEN Frame ELSE other
InputsOf(id) == InputsOfFrame(FrameOf(id))

\* A request's coroutine has seen and produced nothing but its own: every
\* valuator call was handed its inputs, the outcomes so far are those of
\* its methods on its inputs, and its response is the one it gets alone.
Isolated(f) ==
    /\ \A k \in 1..Len(f.seen) :
           f.seen[k] = [stock_data |-> f.stock_data,
                        market_context |-> f.market_context,
                        assumptions |-> f.request.assumptions]
    /\ f.idx >= 1 =>
           /\ f.calls = SubSeq(f.request.valuation_methods, 1, f.idx - 1)
           /\ f.valuations = AloneValuations(f.request, f.stock_data,
                                             f.market_context, f.idx - 1)
    /\ f.pc = "done" =>
           Told(f.response) = AloneOutcome(f.request, f.stock_data,
                                           f.market_context)

C26_RequestsIsolated ==
    /\ [][\A id \in {1, 2} : InputsOf(id)' = InputsOf(id)]_vars
    /\ [](Isolated(Frame) /\ Isolated(other))

\* C26 witness: both requests are in their loops, each with one call made,
\* and each holds the DCF outcome of its own assumptions.
C26_Witness ==
    /\ pc = "loop" /\ other.pc = "loop"
    /\ idx = 2 /\ other.idx = 2
    /\ request.assumptions # other.request.assumptions
    /\ Len(valuations) = 1 /\ Len(other.valuations) = 1
    /\ valuations[1].method = DCF /\ other.valuations[1].method = DCF
    /\ valuations[1].assumptions # other.valuations[1].assumptions
    /\ valuations[1].estimated_value # other.valuations[1].estimated_value

(***************************************************************************)
(* The helpers, one call at a time (SpecHelpers).                          *)
(***************************************************************************)
Returned(fn) == call.fn = fn /\ call.returned

PositiveRate == IsNum(call.args.discount_rate) /\ call.args.discount_rate.n > 0

\* (1 + discount_rate)^k * x = cf: x is cf discounted over k periods
DiscountedOver(x, cf, k) ==
    RMul(x, RPow(RAdd(Num(1), call.args.discount_rate), k)) = cf

DiscountedAsStated ==
    /\ call.result.ok
    /\ Len(call.result.value) = Len(call.args.cash_flows)
    /\ \A k \in 1..Len(call.args.cash_flows) :
           DiscountedOver(call.result.value[k], call.args.cash_flows[k], k)

YearsAsked == call.args.years.n
CountAsked ==
    /\ IsPyInt(call.args.years)
    /\ YearsAsked >= 0
    /\ YearsAsked > 0 => IsNum(call.args.initial_fcf) /\ IsNum(call.args.growth_rate)

RECURSIVE Compounded(_, _, _)
Compounded(initial, growth_rate, i) ==
    IF i = 0 THEN initial
    ELSE RAdd(Compounded(initial, growth_rate, i - 1),
              RMul(Compounded(initial, growth_rate, i - 1), growth_rate))

\* C25: _project_cash_flows(initial, growth_rate, years) returns exactly
\* `years` values, the i-th (1-indexed) being initial * (1 + growth_rate)^i,
\* and changes neither its arguments nor anything else.
C25_ProjectedFlows ==
    /\ [][ProjectCashFlows =>
              /\ call'.args = call.args
              /\ <<Frame, other, now>>' = <<Frame, other, now>>]_vars
    /\ []((Returned("_project_cash_flows") /\ CountAsked) =>
              /\ call.result.ok
              /\ Len(call.result.value) = YearsAsked
              /\ \A i \in 1..YearsAsked :
                     call.result.value[i] =
                         Compounded(call.args.initial_fcf,
                                    call.args.growth_rate, i))

\* C25 witness: a call asking for the largest number of years has returned,
\* with a non-zero initial flow and a non-zero growth rate.
C25_Witness ==
    /\ Returned("_project_cash_flows")
    /\ CountAsked
    /\ YearsAsked = MaxYears
    /\ call.args.initial_fcf.n # 0
    /\ call.args.growth_rate.n > 0

\* The outcomes of the formatter's input, when it is a response's JSON:
\* a list of outcomes each with an interval of two components (no list at
\* all counts as no outcomes), and risk factors that are a list or absent.
OutcomesGiven ==
    LET given == call.args.valuation_data.valuations
    IN  IF given.t = "list" THEN given.v ELSE <<>>
ResponseShaped ==
    /\ call.args.valuation_data.valuations.t \in {"list", "missing"}
    /\ call.args.valuation_data.risk_factors.t \in {"list", "missing"}
    /\ \A k \in 1..Len(OutcomesGiven) :
           /\ OutcomesGiven[k].confidence_interval.t = "list"
           /\ Len(OutcomesGiven[k].confidence_interval.v) = 2

\* C30: format_valuation_for_powerbi outputs one row per outcome of the
\* input's valuations list, in the same order, each row carrying that
\* outcome's method, estimated value and the first and second components
\* of its interval; an input with no valuations gives no rows.
C30_RowsMirrorOutcomes ==
    (Returned("format_valuation_for_powerbi") /\ ResponseShaped) =>
        /\ call.result.ok
        /\ Len(call.result.value.valuation_methods) = Len(OutcomesGiven)
        /\ \A k \in 1..Len(OutcomesGiven) :
               LET row == call.result.value.valuation_methods[k]
               IN  /\ DOMAIN row = {"method", "estimated_value",
                                    "confidence_lower", "confidence_upper"}
                   /\ row.method = OutcomesGiven[k].method
                   /\ row.estimated_value = OutcomesGiven[k].estimated_value
                   /\ row.confidence_lower =
                          OutcomesGiven[k].confidence_interval.v[1]
                   /\ row.confidence_upper =
                          OutcomesGiven[k].confidence_interval.v[2]

\* C30 witness: the formatter has returned for two different outcomes
\* whose intervals have distinct components.
C30_Witness ==
    /\ Returned("format_valuation_for_powerbi")
    /\ ResponseShaped
    /\ Len(OutcomesGiven) = 2
    /\ OutcomesGiven[1].method # OutcomesGiven[2].method
    /\ \A k \in 1..2 : OutcomesGiven[k].confidence_interval.v[1] #
                             OutcomesGiven[k].confidence_interval.v[2]

(***************************************************************************)
(* The order of the steps of one request (Spec).                           *)
(***************************************************************************)
\* Every requested entry has been invoked once, in order, and has settled:
\* it left an outcome or a logged failure.
AllSettled ==
    /\ calls = Methods
    /\ Len(valuations) + Len(warnings) = Len(Methods)
    /\ \A k \in 1..Len(Methods) :
           IF Succeeds(k)
           THEN Cardinality({j \in 1..k : Succeeds(j)}) \in 1..Len(valuations)
           ELSE \E w \in 1..Len(warnings) : warnings[w].method = Methods[k]

Synthesized == pc \in {"risk", "respond"} \/ response.status = "200"

\* C27: within one request no entry of the requested methods is invoked more
\* than once (the calls are a prefix of the list), the recommendation and
\* the risk factors are computed only when every entry has been invoked
\* once and has settled, and the recommendation is the one computed from
\* the outcomes of exactly the entries that succeeded.
C27_SynthesisAfterAllSettled ==
    /\ [][(recommendation' # recommendation \/ risk_factors' # risk_factors
             \/ GenerateRecommendation \/ IdentifyRiskFactors)
              => AllSettled]_vars
    /\ [](/\ Len(calls) <= Len(Methods)
          /\ \A k \in 1..Len(calls) : calls[k] = Methods[k])
    /\ [](Synthesized =>
              /\ AllSettled
              /\ valuations = AloneValuations(request, stock_data,
                                              market_context, Len(Methods))
              /\ MethodsOf(valuations) = Kept(Len(Methods))
              /\ recommendation =
                     generate_recommendation(
                         AloneValuations(request, stock_data, market_context,
                                         Len(Methods)),
                         financial_metrics).value)

\* C27 witness: a response to three requested methods of which one failed
\* and two succeeded.
C27_Witness ==
    /\ response.status = "200"
    /\ Len(Methods) = 3
    /\ Len(calls) = 3
    /\ Len(response.valuations) = 2
    /\ Len(warnings) = 1
    /\ response.recommendation \in {StrongBuy, Buy, Sell, HoldDownside, HoldFair}

(***************************************************************************)
(* The market context and the valuators (Spec).                            *)
(***************************************************************************)
MarketContexts ==
    {EmptyContext, Context(PyNone), Context(Num(0)), Context(R(1, 20)),
     Context(R(2, 5)), Context(Num(-1))}

\* The loop's step records r: an outcome appended, or a failure logged
SettlesAs(method, r) ==
    IF r.ok
    THEN valuations' = Append(valuations, r.value) /\ warnings' = warnings
    ELSE /\ warnings' = Append(warnings, [method |-> method, error |-> r.error])
         /\ valuations' = valuations

\* C28: for the request's snapshot and assumptions, every valuator call
\* returns the outcome, or fails in the way, it would with any other market
\* context, the empty one included; the valuators do not read the context.
C28_ContextIgnoredByValuators ==
    [][Valuate =>
          \A mc \in MarketContexts :
              SettlesAs(Methods[idx],
                        perform_single_valuation(Methods[idx], stock_data, mc,
                                                 request.assumptions))]_vars

\* C28 witness: a response in which a valuator succeeded and another failed,
\* and whose risk factors would be different with another market context.
C28_Witness ==
    /\ response.status = "200"
    /\ Len(valuations) > 0
    /\ Len(warnings) > 0
    /\ \E mc \in MarketContexts :
           /\ identify_risk_factors(stock_data, mc).ok
           /\ identify_risk_factors(stock_data, mc).value # risk_factors

(***************************************************************************)
(* Unknown ratios and the risk-factor derivation (Spec).                   *)
(***************************************************************************)
Unknown(field) == stock_data[field] = PyNone

\* The recommendation was computed, so the risk derivation has been run.
RiskDerivationRun == recommendation # "" /\ pc \in {"respond", "done"}

\* C29: for a snapshot whose debt_to_equity or pe_ratio is present with a
\* null value, the risk-factor derivation completes without error, does not
\* fire the rule of the unknown field, and the request returns a response.
C29_UnknownRatiosTolerated ==
    (/\ RiskDerivationRun
     /\ Unknown("debt_to_equity") \/ Unknown("pe_ratio")) =>
        /\ response.status # "500"
        /\ Unknown("debt_to_equity") => ~Listed(HighDebt)
        /\ Unknown("pe_ratio") => ~Listed(HighPE)
        /\ pc = "done" => response.status = "200"

=============================================================================
